---- MODULE Spec2Model ----
(***************************************************************************)
(* A model of one invocation of the action in upload mode: uploadRun of    *)
(* src/src/main.ts (release notes, credentials, input validation, the      *)
(* timeout around the publish, the two cleanup blocks) and runUpload /     *)
(* uploadToPlayStore of src/src/edits.ts (the publishing transaction).     *)
(*                                                                         *)
(* pc  is the position of run()/uploadRun() in main.ts,                    *)
(* upc is the position of the runUpload() promise, which keeps running on  *)
(*     its own once pTimeout has rejected (p-timeout cannot cancel a       *)
(*     native promise).                                                    *)
(* Every remote call is one step: the call is appended to `calls` and the  *)
(* service's answer is drawn from the answers the client library can give. *)
(*                                                                         *)
(* Numbers: a rollout fraction f is the integer 10*f; an absent value is   *)
(* Undefined and a NaN is NaN (both outside the numeric range, and every   *)
(* comparison on them is guarded the way the JavaScript guards it).        *)
(* A decimal string is the sequence of its digits.                         *)
(***************************************************************************)
EXTENDS Integers, Sequences, FiniteSets, TLC

\* ------------------------------------------------------------------ bounds
MaxFiles == 2
\* the most files of a whatsnew directory
MaxDirents == 2
FractionRange == 12
PriorityRange == 7

\* --------------------------------------------------------- value encodings
Undefined == -999
NaN == -998
Infinity == 999
NegInfinity == -997
One == 10

InternalSharing == "internalsharing"

FileKinds == {"apk", "aab", "other"}
FileLists == UNION {[1..n -> FileKinds] : n \in 0..MaxFiles}

\* the <<userFraction, status, inAppUpdatePriority>> inputs of a run: two that
\* pass every validation and one or more for each way of failing one
InputCases ==
  {<<Undefined, "completed", Undefined>>, <<1, "inProgress", 3>>,
   <<NaN, "inProgress", 3>>, <<0, "inProgress", 3>>, <<One, "halted", 3>>,
   <<Undefined, "bogus", 3>>, <<5, "draft", 3>>, <<Undefined, "halted", 0>>,
   <<5, "inProgress", 6>>, <<Undefined, "draft", NaN>>}

\* every value the inputs can parse to: parseFloat yields a number, NaN or an
\* infinity, parseInt a number or NaN, and an empty input is undefined; the
\* status is any string, the empty one when the input is absent
Fractions ==
  {Undefined, NaN, Infinity, NegInfinity} \cup (-FractionRange..FractionRange)
Priorities == {Undefined, NaN} \cup (-PriorityRange..PriorityRange)
Statuses == {"", "bogus", "completed", "inProgress", "halted", "draft"}
AllInputCases == Fractions \X Statuses \X Priorities

Tracks == {InternalSharing, "production"}
EditIds == {"", "E9"}
Paths == {"", "p"}

\* answers of the service
TrackLists ==
  {<<>>,
   <<[track |-> "production"], [track |-> "beta"]>>,
   <<[track |-> "beta"], [track |-> "alpha"]>>}
NewEditIds == {"", "E1"}
CommitIds == {"", "C1", "C2"}
HttpStatuses == {200, 500}
VersionCodeOf(i) == 1000 + i
DownloadUrlOf(i) == 2000 + i

VARIABLES pc, upc, alive, inputs, options, releaseNotes, plainText, credFile,
          appEditId, idx, versionCode, versionCodes, urls,
          calls, failures, outputs, exported, result, late,
          processEnv, releaseFiles, signingKey, index, signedReleaseFiles, execs,
          logged,
          whatsNew

\* the state of a sign-mode run: the environment signRun finds, the files
\* found in releaseDirectory, whether signingKey.jks is on disk, the locals
\* index and signedReleaseFiles, the external tools run so far and the
\* messages of logger.e
signVars == <<processEnv, releaseFiles, signingKey, index, signedReleaseFiles, execs,
              logged>>

vars == <<pc, upc, alive, inputs, options, releaseNotes, plainText, credFile,
          appEditId, idx, versionCode, versionCodes, urls,
          calls, failures, outputs, exported, result, late, signVars,
          whatsNew>>

\* ------------------------------------------------------------ message model
Msg(text) ==
  [text |-> text, track |-> "", names |-> <<>>, code |-> 0, statusText |-> ""]

\* the locals of uploadRun that the validations read; read is FALSE until
\* the validations have run
NoInputs ==
  [read |-> FALSE, userFraction |-> Undefined, status |-> "",
   inAppUpdatePriority |-> Undefined, releaseFiles |-> <<>>]

NoOptions ==
  [track |-> "", existingEditId |-> "", releaseFiles |-> <<>>,
   userFraction |-> Undefined, status |-> "", inAppUpdatePriority |-> 0,
   mappingFile |-> "", debugSymbols |-> ""]

\* where uploadRun goes when its try block ends: both finally blocks test the
\* serviceAccountJsonPlainText input and do nothing without it, so without it
\* run() returns in the same turn of the event loop
afterTry(raw) == IF raw THEN "uploadRunFinally" ELSE "done"

\* core.setFailed(message)
setFailed(m) == failures' = Append(failures, m)

failed == Len(failures) > 0

\* ------------------------------------------------------ input validation
isNaN(x) == x = NaN

\* JavaScript truthiness of a number | undefined
truthy(x) == x \notin {Undefined, NaN, 0}

\* variant: the bounds 0 and 1 are accepted
validateUserFraction_inclusive(userFraction) ==
  IF userFraction # Undefined
    THEN IF isNaN(userFraction)
           THEN "'userFraction' must be a number!"
           ELSE IF userFraction > One \/ userFraction < 0
                  THEN "'userFraction' must be between 0 and 1!"
                  ELSE ""
    ELSE ""

\* each validator yields "" when it resolves and the error text when it rejects
validateUserFraction(userFraction) ==
  IF userFraction # Undefined
    THEN IF isNaN(userFraction)
           THEN "'userFraction' must be a number!"
           ELSE IF userFraction >= One \/ userFraction <= 0
                  THEN "'userFraction' must be between 0 and 1!"
                  ELSE ""
    ELSE ""

\* variant: draft is grouped with the statuses that need a fraction
validateStatus_draftRollout(status, hasUserFraction) ==
  IF status \notin {"completed", "inProgress", "halted", "draft"}
    THEN "Invalid status provided!"
    ELSE IF status = "completed"
           THEN IF hasUserFraction
                  THEN "Status does not support 'userFraction'" ELSE ""
           ELSE IF ~hasUserFraction
                  THEN "Status requires a 'userFraction' to be set" ELSE ""

validateStatus(status, hasUserFraction) ==
  IF status \notin {"completed", "inProgress", "halted", "draft"}
    THEN "Invalid status provided!"
    ELSE IF status \in {"completed", "draft"}
           THEN IF hasUserFraction
                  THEN "Status does not support 'userFraction'" ELSE ""
           ELSE IF ~hasUserFraction
                  THEN "Status requires a 'userFraction' to be set" ELSE ""

validateInAppUpdatePriority(inAppUpdatePriority) ==
  IF truthy(inAppUpdatePriority)
    THEN IF inAppUpdatePriority < 0 \/ inAppUpdatePriority > 5
           THEN "inAppUpdatePriority must be between 0 and 5, inclusive-inclusive"
           ELSE ""
    ELSE ""

validateReleaseFiles(files) ==
  IF Len(files) = 0 THEN "Unable to find any release file" ELSE ""

\* variant: the release files are not validated
firstRejection_noFiles(userFraction, status, priority, files) ==
  LET e1 == validateUserFraction(userFraction)
      e2 == validateStatus(status, userFraction # Undefined /\ ~isNaN(userFraction))
      e3 == validateInAppUpdatePriority(priority)
  IN IF e1 # "" THEN e1
     ELSE IF e2 # "" THEN e2
     ELSE e3

\* the validations of uploadRun, in the order the code awaits them; the
\* first one that rejects ends the try block
firstRejection(userFraction, status, priority, files) ==
  LET e1 == validateUserFraction(userFraction)
      e2 == validateStatus(status, userFraction # Undefined /\ ~isNaN(userFraction))
      e3 == validateInAppUpdatePriority(priority)
      e4 == validateReleaseFiles(files)
  IN IF e1 # "" THEN e1
     ELSE IF e2 # "" THEN e2
     ELSE IF e3 # "" THEN e3
     ELSE e4

\* the environment of a sign-mode run: DEBUG_ACTION, whether the build-tools
\* directory exists and whether jarsigner is on the PATH
NoEnv == [debug |-> FALSE, buildTools |-> FALSE, jarsigner |-> FALSE]

\* an upload run signs nothing
noSigning ==
  /\ processEnv = NoEnv
  /\ releaseFiles = <<>>
  /\ signingKey = FALSE
  /\ index = 0
  /\ signedReleaseFiles = <<>>
  /\ execs = <<>>
  /\ logged = <<>>

\* the call of readLocalizedReleaseNotes under study: where it is (pc), its
\* argument, the directory it is given (whether it can be listed and its
\* entries, each a file name with the file's content), its locals
\* releaseNotes (the filtered entries) and localizedReleaseNotes, the round
\* of its loop, and the file-system calls it has made
NoWhatsNew ==
  [pc |-> "idle", whatsNewDir |-> "", readable |-> FALSE, dirents |-> <<>>,
   releaseNotes |-> <<>>, at |-> 1, localizedReleaseNotes |-> <<>>,
   fsCalls |-> <<>>]

\* readLocalizedReleaseNotes is not followed step by step
notReading == whatsNew = NoWhatsNew

\* ----------------------------------------------------------------- Init
Init ==
  /\ pc = "getReleaseNotes"
  /\ upc = "idle"
  /\ alive = TRUE
  /\ inputs = NoInputs
  /\ options = NoOptions
  /\ releaseNotes = <<>>
  /\ plainText = FALSE
  /\ credFile = FALSE
  /\ appEditId = ""
  /\ idx = 1
  /\ versionCode = 0
  /\ versionCodes = <<>>
  /\ urls = <<>>
  /\ calls = <<>>
  /\ failures = <<>>
  /\ outputs = <<>>
  /\ exported = <<>>
  /\ result = ""
  /\ late = FALSE
  /\ notReading
  /\ noSigning

uploadVars == <<upc, alive, appEditId, idx, versionCode, versionCodes, urls,
                calls, outputs, exported, result, late>>

\* the values the input releaseNotesSource is given
NotesSources == {"none", "file", "git-commits"}

\* getReleaseNotes(source, path, content): the text it returns ("" for
\* undefined or an empty text) and the failure it reports ("" for none);
\* ioOk is whether the file read or the git log succeeds, text what it yields
getReleaseNotes(source, path, content, ioOk, text) ==
  IF content # "" THEN [notes |-> content, failure |-> ""]
  ELSE IF source = "file" /\ path # ""
    THEN IF ioOk THEN [notes |-> text, failure |-> ""]
         ELSE [notes |-> "", failure |-> "Failed to read release notes file"]
  ELSE IF source = "git-commits"
    THEN IF ioOk THEN [notes |-> text, failure |-> ""]
         ELSE [notes |-> "",
               failure |-> "Failed to generate release notes from git commits."]
  ELSE [notes |-> "", failure |-> ""]

\* ------------------------------------------------------- uploadRun, main.ts
\* getReleaseNotes and the wrapping into LocalizedText[]; releaseNotes = <<>>
\* stands for undefined
GetReleaseNotes ==
  /\ UNCHANGED <<signVars, whatsNew>>
  /\ pc = "getReleaseNotes"
  /\ \E content \in {"", "notes"}, source \in NotesSources, path \in Paths,
        ioOk \in BOOLEAN, text \in {"", "notes"} :
       LET got == getReleaseNotes(source, path, content, ioOk, text)
       IN /\ releaseNotes' = IF got.notes # ""
                               THEN <<[language |-> "en-US", text |-> got.notes]>>
                               ELSE <<>>
          /\ IF got.failure # ""
               THEN setFailed(Msg(got.failure))
               ELSE UNCHANGED failures
  /\ pc' = "validateServiceAccountJson"
  /\ UNCHANGED <<inputs, options, plainText, credFile>>
  /\ UNCHANGED uploadVars

\* raw: serviceAccountJsonPlainText is given; json: serviceAccountJson is.
\* The two ways of giving the credentials and the release-notes inputs do not
\* read each other, so plain-text credentials are explored for the runs
\* without release notes, which bounds the combinations of inputs.
ValidateServiceAccountJson ==
  /\ UNCHANGED <<signVars, whatsNew>>
  /\ pc = "validateServiceAccountJson"
  /\ \E raw \in BOOLEAN, json \in BOOLEAN, writeOk \in BOOLEAN :
       /\ raw => (releaseNotes = <<>> /\ failures = <<>>)
       /\ plainText' = raw
       /\ IF raw
            THEN IF writeOk
                   THEN /\ credFile' = TRUE
                        /\ pc' = "validateInputs"
                        /\ UNCHANGED failures
                   ELSE /\ credFile' = FALSE
                        /\ setFailed(Msg("writeFile failed"))
                        /\ pc' = "uploadRunFinally"
            ELSE IF json
                   THEN /\ pc' = "validateInputs"
                        /\ UNCHANGED <<credFile, failures>>
                   ELSE \* rejects with a string, not an Error
                        /\ setFailed(Msg("Unknown error occurred."))
                        /\ pc' = afterTry(raw)
                        /\ UNCHANGED credFile
  /\ UNCHANGED <<inputs, options, releaseNotes>>
  /\ UNCHANGED uploadVars

\* the four validations of uploadRun on inputs drawn from `cases`
ValidateInputsOf(cases) ==
  /\ UNCHANGED <<signVars, whatsNew>>
  /\ pc = "validateInputs"
  /\ \E case \in cases, files \in FileLists :
       /\ inputs' = [read |-> TRUE, userFraction |-> case[1], status |-> case[2],
                     inAppUpdatePriority |-> case[3], releaseFiles |-> files]
       /\ LET err == firstRejection(case[1], case[2], case[3], files)
          IN IF err # ""
               THEN setFailed(Msg(err)) /\ pc' = afterTry(plainText)
               ELSE UNCHANGED failures /\ pc' = "runUpload"
  /\ UNCHANGED <<options, releaseNotes, plainText, credFile>>
  /\ UNCHANGED uploadVars

ValidateInputs == ValidateInputsOf(InputCases)

ValidateAnyInputs == ValidateInputsOf(AllInputCases)

\* variant: a supplied edit id forces the edit path
firstStep_editGiven(opts) ==
  IF opts.track = InternalSharing /\ opts.existingEditId = ""
    THEN "uploadInternalSharingRelease" ELSE "getOrCreateEdit"

\* uploadToPlayStore: the internal-sharing track bypasses the edit
firstStep(opts) ==
  IF opts.track = InternalSharing
    THEN "uploadInternalSharingRelease" ELSE "getOrCreateEdit"

\* the call of runUpload under pTimeout, which builds the EditOptions
RunUpload ==
  /\ UNCHANGED <<signVars, whatsNew>>
  /\ pc = "runUpload"
  /\ \E track \in Tracks, existingEditId \in EditIds,
        mappingFile \in Paths, debugSymbols \in Paths :
       options' = [track |-> track,
                   existingEditId |-> existingEditId,
                   releaseFiles |-> inputs.releaseFiles,
                   userFraction |-> inputs.userFraction,
                   status |-> inputs.status,
                   inAppUpdatePriority |->
                     IF truthy(inputs.inAppUpdatePriority)
                       THEN inputs.inAppUpdatePriority ELSE 0,
                   mappingFile |-> mappingFile,
                   debugSymbols |-> debugSymbols]
  /\ pc' = "awaitUpload"
  /\ upc' = firstStep(options')
  /\ UNCHANGED <<alive, inputs, releaseNotes, plainText, credFile, appEditId, idx,
                 versionCode, versionCodes, urls, calls, failures, outputs,
                 exported, result, late>>

\* ---------------------------------------------------- remote calls, edits.ts
\* one entry of the log of remote calls.  The request: api, editId, file (the
\* position of the artifact, 0 when the call is about none), versionCode
\* (apkVersionCode of a side upload), releases (the body of a track update).
\* The answer: ok (the call returned and the code went on), ret (the id of an
\* insert or commit), status / listed / tracks (a track listing), code (the
\* versionCode or download URL of an upload, Undefined when the answer has none)
Call(api, editId, file) ==
  [api |-> api, editId |-> editId, file |-> file, versionCode |-> 0,
   releases |-> <<>>, ok |-> TRUE, ret |-> "", status |-> 0,
   listed |-> FALSE, tracks |-> <<>>, code |-> Undefined]

issue(c) == calls' = Append(calls, c)

\* the runUpload promise is pending
inFlight == upc \notin {"idle", "resolved", "rejected"}

\* variant: the failing step is retried instead of rejecting
Reject_retry(m) ==
  /\ upc' = upc
  /\ UNCHANGED <<pc, failures>>

\* the runUpload promise rejects with an Error: uploadRun's catch reports it,
\* unless pTimeout has already settled
Reject(m) ==
  /\ upc' = "rejected"
  /\ IF pc = "awaitUpload"
       THEN setFailed(m) /\ pc' = afterTry(plainText)
       ELSE UNCHANGED <<pc, failures>>

Resolve ==
  /\ upc' = "resolved"
  /\ pc' = IF pc = "awaitUpload" THEN afterTry(plainText) ELSE pc
  /\ UNCHANGED failures

mainVars == <<alive, inputs, options, releaseNotes, plainText, credFile>>

\* late records that a remote call has been answered after uploadRun
\* returned: pTimeout has rejected, the finally block has removed the
\* credentials file if there was one, the call that was pending then has
\* returned to runUpload, and every call after it is issued by a publish
\* whose run was already reported and whose credentials file is gone
noteLate ==
  late' = (late \/ (calls' # calls /\ pc \notin {"awaitUpload", "uploadRunFinally"}))

\* variant: an edit is always created
useExistingEdit_never(opts) == FALSE

\* if (options.existingEditId)
useExistingEdit(opts) == opts.existingEditId # ""

getOrCreateEdit ==
  /\ UNCHANGED <<signVars, whatsNew>>
  /\ alive
  /\ upc = "getOrCreateEdit"
  /\ IF useExistingEdit(options)
       THEN /\ appEditId' = options.existingEditId
            /\ upc' = "validateSelectedTrack"
            /\ UNCHANGED <<calls, pc, failures>>
       ELSE \E thrown \in BOOLEAN, id \in NewEditIds :
              /\ thrown => id = ""
              /\ issue([Call("edits.insert", "", 0) EXCEPT
                          !.ret = id, !.ok = ~thrown /\ id # ""])
              /\ IF thrown
                   THEN Reject(Msg("edits.insert failed")) /\ UNCHANGED appEditId
                   ELSE IF id # ""
                          THEN /\ appEditId' = id
                               /\ upc' = "validateSelectedTrack"
                               /\ UNCHANGED <<pc, failures>>
                          ELSE Reject(Msg("Failed to create an edit"))
                               /\ UNCHANGED appEditId
  /\ UNCHANGED mainVars
  /\ noteLate
  /\ UNCHANGED <<idx, versionCode, versionCodes, urls, outputs, exported, result>>

\* variant: the names are listed last to first
allTrackNames_reversed(allTracks) ==
  [i \in 1..Len(allTracks) |-> allTracks[Len(allTracks) + 1 - i].track]

\* allTracks.map(track => track.track)
allTrackNames(allTracks) == [i \in 1..Len(allTracks) |-> allTracks[i].track]

\* variant: any answered list passes
findTrack_any(allTracks, track) == TRUE

\* allTracks.find(value => value.track == options.track) != undefined
findTrack(allTracks, track) == \E i \in 1..Len(allTracks) : allTracks[i].track = track

\* the answers to a track listing: a thrown error (status 0), a status other
\* than 200, a body without tracks, a body with tracks
ListAnswers ==
  {[status |-> 0, listed |-> FALSE, tracks |-> <<>>],
   [status |-> 500, listed |-> FALSE, tracks |-> <<>>],
   [status |-> 200, listed |-> FALSE, tracks |-> <<>>]}
  \cup {[status |-> 200, listed |-> TRUE, tracks |-> t] : t \in TrackLists}

validateSelectedTrack ==
  /\ UNCHANGED <<signVars, whatsNew>>
  /\ alive
  /\ upc = "validateSelectedTrack"
  /\ \E ans \in ListAnswers :
       LET found == /\ ans.status = 200
                    /\ ans.listed
                    /\ findTrack(ans.tracks, options.track)
       IN /\ issue([Call("edits.tracks.list", appEditId, 0) EXCEPT
                      !.status = ans.status, !.listed = ans.listed,
                      !.tracks = ans.tracks, !.ok = found])
          /\ IF ans.status = 0 THEN Reject(Msg("edits.tracks.list failed"))
             ELSE IF ans.status # 200 THEN Reject(Msg("statusText"))
             ELSE IF ~ans.listed
                    THEN Reject(Msg("No tracks found, unable to validate track."))
             ELSE IF ~findTrack(ans.tracks, options.track)
                    THEN Reject([Msg("Track could not be found. Available tracks are:")
                                   EXCEPT !.track = options.track,
                                          !.names = allTrackNames(ans.tracks)])
             ELSE /\ upc' = "uploadReleaseFiles"
                  /\ UNCHANGED <<pc, failures>>
  /\ UNCHANGED mainVars
  /\ noteLate
  /\ UNCHANGED <<appEditId, idx, versionCode, versionCodes, urls, outputs,
                 exported, result>>

\* variant: unshift instead of push
pushVersionCode_unshift(code) ==
  /\ versionCodes' = <<code>> \o versionCodes
  /\ versionCode' = 0
  /\ idx' = idx + 1
  /\ upc' = IF idx + 1 > Len(options.releaseFiles)
              THEN "addReleasesToTrack" ELSE "uploadReleaseFiles"

\* versionCodes.push(versionCode) and the advance of the for loop; versionCode
\* is a local of the loop body
pushVersionCode(code) ==
  /\ versionCodes' = Append(versionCodes, code)
  /\ versionCode' = 0
  /\ idx' = idx + 1
  /\ upc' = IF idx + 1 > Len(options.releaseFiles)
              THEN "addReleasesToTrack" ELSE "uploadReleaseFiles"

\* the versionCode of an upload's answer: absent or the artifact's code
AnsweredCodes(i) == {Undefined, VersionCodeOf(i)}

\* variant: the answered value is recorded as it is
orZero_asAnswered(code) == code

\* apk.versionCode || 0
orZero(code) == IF truthy(code) THEN code ELSE 0

\* variant: a path with neither extension is uploaded as a bundle
endsWith_orNone(releaseFile, ext) ==
  releaseFile = ext \/ (ext = "aab" /\ releaseFile = "other")

\* releaseFile.endsWith('.apk'), releaseFile.endsWith('.aab')
endsWith(releaseFile, ext) == releaseFile = ext

\* variant: the loop takes the files from the last to the first
roundFile_reversed(files, i) == Len(files) + 1 - i

\* for (const releaseFile of releaseFiles): the position of the file that
\* round i of the loop handles
roundFile(files, i) == i

uploadReleaseFiles ==
  /\ UNCHANGED <<signVars, whatsNew>>
  /\ alive
  /\ upc = "uploadReleaseFiles"
  /\ idx <= Len(options.releaseFiles)
  /\ LET at == roundFile(options.releaseFiles, idx)
         releaseFile == options.releaseFiles[at] IN
       IF endsWith(releaseFile, "apk")
         THEN \E thrown \in BOOLEAN, code \in AnsweredCodes(idx) :
                /\ thrown => code = Undefined
                /\ issue([Call("edits.apks.upload", appEditId, at) EXCEPT
                            !.ok = ~thrown, !.code = code])
                /\ IF thrown
                     THEN /\ Reject(Msg("edits.apks.upload failed"))
                          /\ UNCHANGED versionCode
                     ELSE /\ versionCode' = orZero(code)
                          /\ upc' = "uploadMappingFile"
                          /\ UNCHANGED <<pc, failures>>
                /\ UNCHANGED <<versionCodes, idx>>
       ELSE IF endsWith(releaseFile, "aab")
         THEN \E thrown \in BOOLEAN, code \in AnsweredCodes(idx) :
                /\ thrown => code = Undefined
                /\ issue([Call("edits.bundles.upload", appEditId, at) EXCEPT
                            !.ok = ~thrown, !.code = code])
                /\ IF thrown
                     THEN /\ Reject(Msg("edits.bundles.upload failed"))
                          /\ UNCHANGED <<versionCode, versionCodes, idx>>
                     ELSE /\ pushVersionCode(orZero(code))
                          /\ UNCHANGED <<pc, failures>>
       ELSE /\ Reject(Msg("is invalid (missing or invalid file extension)."))
            /\ UNCHANGED <<calls, versionCode, versionCodes, idx>>
  /\ UNCHANGED mainVars
  /\ noteLate
  /\ UNCHANGED <<appEditId, urls, outputs, exported, result>>

\* variant: the side file is uploaded whether or not the option is set
isSet_always(path) == TRUE

\* options.mappingFile != undefined && options.mappingFile.length > 0, and the
\* same test of options.debugSymbols
isSet(path) == path # ""

\* variant: the error is caught and the publish goes on
mappingFileError_caught(m) ==
  /\ upc' = "uploadDebugSymbolsFile"
  /\ UNCHANGED <<pc, failures>>

\* an error thrown inside uploadMappingFile: neither it nor uploadReleaseFiles
\* nor uploadToPlayStore catches, so the publish rejects with it
mappingFileError(m) == Reject(m)

\* readOk: whether readFileSync finds the mapping file
uploadMappingFile ==
  /\ UNCHANGED <<signVars, whatsNew>>
  /\ alive
  /\ upc = "uploadMappingFile"
  /\ IF isSet(options.mappingFile)
       THEN \E readOk \in BOOLEAN, thrown \in BOOLEAN :
              /\ ~readOk => ~thrown
              /\ IF ~readOk
                   THEN mappingFileError(Msg("ENOENT: mappingFile"))
                        /\ UNCHANGED calls
                   ELSE /\ issue([Call("edits.deobfuscationfiles.upload proguard",
                                       appEditId, idx)
                                    EXCEPT !.versionCode = versionCode,
                                           !.ok = ~thrown])
                        /\ IF thrown
                             THEN mappingFileError(
                                    Msg("edits.deobfuscationfiles.upload failed"))
                             ELSE /\ upc' = "uploadDebugSymbolsFile"
                                  /\ UNCHANGED <<pc, failures>>
       ELSE /\ upc' = "uploadDebugSymbolsFile"
            /\ UNCHANGED <<calls, pc, failures>>
  /\ UNCHANGED mainVars
  /\ noteLate
  /\ UNCHANGED <<appEditId, idx, versionCode, versionCodes, urls, outputs,
                 exported, result>>

\* readOk: whether lstatSync, the zipping of a directory and readFileSync
\* succeed
uploadDebugSymbolsFile ==
  /\ UNCHANGED <<signVars, whatsNew>>
  /\ alive
  /\ upc = "uploadDebugSymbolsFile"
  /\ IF isSet(options.debugSymbols)
       THEN \E readOk \in BOOLEAN, thrown \in BOOLEAN :
              /\ ~readOk => ~thrown
              /\ IF ~readOk
                   THEN /\ Reject(Msg("ENOENT: debugSymbols"))
                        /\ UNCHANGED <<calls, versionCode, versionCodes, idx>>
                   ELSE /\ issue([Call("edits.deobfuscationfiles.upload nativeCode",
                                       appEditId, idx)
                                    EXCEPT !.versionCode = versionCode,
                                           !.ok = ~thrown])
                        /\ IF thrown
                             THEN /\ Reject(Msg("edits.deobfuscationfiles.upload failed"))
                                  /\ UNCHANGED <<versionCode, versionCodes, idx>>
                             ELSE /\ pushVersionCode(versionCode)
                                  /\ UNCHANGED <<pc, failures>>
       ELSE /\ pushVersionCode(versionCode)
            /\ UNCHANGED <<calls, pc, failures>>
  /\ UNCHANGED mainVars
  /\ noteLate
  /\ UNCHANGED <<appEditId, urls, outputs, exported, result>>

\* Number.prototype.toString: the decimal digits of a natural number
RECURSIVE toString(_)
toString(n) == IF n < 10 THEN <<n>> ELSE Append(toString(n \div 10), n % 10)

\* variant: nothing is filtered
filterNonZero_keepAll(codes) == codes

\* versionCodes.filter(x => x != 0)
RECURSIVE filterNonZero(_)
filterNonZero(codes) ==
  IF codes = <<>> THEN <<>>
  ELSE IF Head(codes) # 0
         THEN <<Head(codes)>> \o filterNonZero(Tail(codes))
         ELSE filterNonZero(Tail(codes))

\* variant: one release per version code
releasesOf_perCode(opts, notes, codes) ==
  [i \in 1..Len(codes) |->
     [userFraction |-> opts.userFraction,
      status |-> opts.status,
      inAppUpdatePriority |-> opts.inAppUpdatePriority,
      releaseNotes |-> notes,
      versionCodes |-> <<toString(codes[i])>>]]

\* the release list written by edits.tracks.update
releasesOf(opts, notes, codes) ==
  << [userFraction |-> opts.userFraction,
      status |-> opts.status,
      inAppUpdatePriority |-> opts.inAppUpdatePriority,
      releaseNotes |-> notes,
      versionCodes |-> LET kept == filterNonZero(codes)
                       IN [i \in 1..Len(kept) |-> toString(kept[i])]] >>

\* core.setOutput(name, value) together with core.exportVariable(env, value);
\* a value is a list of URLs, a URL is its number and whether it was inferred
\* from a version code
Url(inferred, n) == [inferred |-> inferred, n |-> n]

\* variant: the values are set as outputs but not exported
emitAll_outputOnly(name, env, values, plural) ==
  LET isList(i) == plural /\ i = Len(values) IN
  /\ outputs' = outputs \o
       [i \in 1..Len(values) |->
          [name |-> IF isList(i) THEN name \o "s" ELSE name, urls |-> values[i]]]
  /\ exported' = exported

\* when `plural` is set the last value goes to the joined-list output
emitAll(name, env, values, plural) ==
  LET isList(i) == plural /\ i = Len(values) IN
  /\ outputs' = outputs \o
       [i \in 1..Len(values) |->
          [name |-> IF isList(i) THEN name \o "s" ELSE name, urls |-> values[i]]]
  /\ exported' = exported \o
       [i \in 1..Len(values) |->
          [name |-> IF isList(i) THEN env \o "S" ELSE env, urls |-> values[i]]]

inferInternalSharingDownloadUrl(code) == Url(TRUE, code)

LocalizedNotes == {<<>>, <<[language |-> "ko-KR", text |-> "localized"]>>}

\* whether the ?? of addReleasesToTrack evaluates its right-hand side and
\* readLocalizedReleaseNotes lists the directory
readsLocalized(explicit, whatsNewDir) == explicit = <<>> /\ whatsNewDir # ""

\* variant: the notes of the directory win over the caller's
resolveNotes_localizedFirst(explicit, whatsNewDir, localized) ==
  IF whatsNewDir # "" /\ localized # <<>> THEN localized ELSE explicit

\* options.releaseNotes ?? (await readLocalizedReleaseNotes(whatsNewDir));
\* localized is what the directory holds, <<>> stands for undefined
resolveNotes(explicit, whatsNewDir, localized) ==
  IF explicit # <<>> THEN explicit
  ELSE IF whatsNewDir # "" THEN localized
  ELSE <<>>

\* the loop over versionCodes of uploadToPlayStore, then addReleasesToTrack
addReleasesToTrack ==
  /\ UNCHANGED <<signVars, whatsNew>>
  /\ alive
  /\ upc = "addReleasesToTrack"
  /\ LET inferred == [i \in 1..Len(versionCodes) |->
                        inferInternalSharingDownloadUrl(versionCodes[i])]
     IN /\ emitAll("internalSharingDownloadUrl", "INTERNAL_SHARING_DOWNLOAD_URL",
                   [i \in 1..Len(inferred) |-> <<inferred[i]>>], FALSE)
        /\ urls' = urls \o inferred
  /\ \E whatsNewDir \in Paths, readOk \in BOOLEAN, localized \in LocalizedNotes,
        thrown \in BOOLEAN :
       /\ ~readOk => ~thrown
       /\ IF readsLocalized(releaseNotes, whatsNewDir) /\ ~readOk
         THEN Reject(Msg("ENOENT: whatsNewDir")) /\ UNCHANGED calls
         ELSE LET notes == resolveNotes(releaseNotes, whatsNewDir, localized)
              IN /\ issue([Call("edits.tracks.update", appEditId, 0) EXCEPT
                             !.releases = releasesOf(options, notes, versionCodes),
                             !.ok = ~thrown])
                 /\ IF thrown
                      THEN Reject(Msg("edits.tracks.update failed"))
                      ELSE /\ upc' = "commit"
                           /\ UNCHANGED <<pc, failures>>
  /\ UNCHANGED mainVars
  /\ noteLate
  /\ UNCHANGED <<appEditId, idx, versionCode, versionCodes, result>>

\* variant: the commit names the caller's edit id
commitRequest_existing(editId, opts) == Call("edits.commit", opts.existingEditId, 0)

\* the request of edits.commit
commitRequest(editId, opts) == Call("edits.commit", editId, 0)

statusTextOf(status) == IF status = 200 THEN "OK" ELSE "Internal Server Error"

\* variant: any answer counts as committed
committed_always(id) == TRUE

\* if (res.data.id)
committed(id) == id # ""

commit ==
  /\ UNCHANGED <<signVars, whatsNew>>
  /\ alive
  /\ upc = "commit"
  /\ \E thrown \in BOOLEAN, id \in CommitIds, status \in HttpStatuses :
       /\ thrown => id = "" /\ status = 500
       /\ id # "" => status = 200
       /\ issue([commitRequest(appEditId, options) EXCEPT
                   !.ret = id, !.status = IF thrown THEN 0 ELSE status,
                   !.ok = ~thrown /\ id # ""])
       /\ IF thrown
            THEN Reject(Msg("edits.commit failed")) /\ UNCHANGED result
            ELSE IF committed(id)
                   THEN /\ result' = id
                        /\ Resolve
                   ELSE \* core.setFailed, then a rejection with a number,
                        \* which uploadRun's catch reports as unknown
                        /\ upc' = "rejected"
                        /\ LET m == [Msg("Error") EXCEPT
                                       !.code = status,
                                       !.statusText = statusTextOf(status)]
                           IN IF pc = "awaitUpload"
                                THEN /\ failures' = failures \o
                                          <<m, Msg("Unknown error occurred.")>>
                                     /\ pc' = afterTry(plainText)
                                ELSE /\ setFailed(m)
                                     /\ UNCHANGED pc
                        /\ UNCHANGED result
  /\ UNCHANGED mainVars
  /\ noteLate
  /\ UNCHANGED <<appEditId, idx, versionCode, versionCodes, urls, outputs, exported>>

\* the answer's downloadUrl: absent (0) or the artifact's URL
AnsweredUrls(i) == {0, DownloadUrlOf(i)}

\* variant: an answer without a download URL is accepted
hasDownloadUrl_always(downloadUrl) == TRUE

\* !res.downloadUrl is false
hasDownloadUrl(downloadUrl) == downloadUrl # 0

\* variant: the newest URL goes to the front of the list
pushUrl_unshift(list, url) == <<url>> \o list

\* internalSharingDownloadUrls.push(url)
pushUrl(list, url) == Append(list, url)

\* one round of the loop of the internal-sharing branch of uploadToPlayStore
uploadInternalSharingRelease ==
  /\ UNCHANGED <<signVars, whatsNew>>
  /\ alive
  /\ upc = "uploadInternalSharingRelease"
  /\ idx <= Len(options.releaseFiles)
  /\ LET releaseFile == options.releaseFiles[idx] IN
       IF endsWith(releaseFile, "apk") \/ endsWith(releaseFile, "aab")
         THEN \E thrown \in BOOLEAN, downloadUrl \in AnsweredUrls(idx) :
                /\ thrown => downloadUrl = 0
                /\ issue([Call(IF endsWith(releaseFile, "apk")
                                 THEN "internalappsharingartifacts.uploadapk"
                                 ELSE "internalappsharingartifacts.uploadbundle",
                               "", idx)
                            EXCEPT !.ok = ~thrown /\ downloadUrl # 0,
                                   !.code = downloadUrl])
                /\ IF thrown
                     THEN /\ Reject(Msg("internalappsharingartifacts upload failed"))
                          /\ UNCHANGED <<urls, idx, outputs, exported>>
                     ELSE IF ~hasDownloadUrl(downloadUrl)
                       THEN /\ Reject(Msg("Uploaded file has no download URL."))
                            /\ UNCHANGED <<urls, idx, outputs, exported>>
                       ELSE LET url == Url(FALSE, downloadUrl)
                                all == pushUrl(urls, url)
                                last == idx + 1 > Len(options.releaseFiles)
                            IN /\ urls' = all
                               /\ idx' = idx + 1
                               /\ emitAll("internalSharingDownloadUrl",
                                          "INTERNAL_SHARING_DOWNLOAD_URL",
                                          IF last THEN <<(<<url>>), all>>
                                                  ELSE <<(<<url>>)>>,
                                          last)
                               /\ IF last THEN Resolve
                                          ELSE UNCHANGED <<upc, pc, failures>>
       ELSE /\ Reject(Msg("is invalid (missing or invalid file extension)."))
            /\ UNCHANGED <<calls, urls, idx, outputs, exported>>
  /\ UNCHANGED mainVars
  /\ noteLate
  /\ UNCHANGED <<appEditId, versionCode, versionCodes, result>>

\* ------------------------------------------- the timeout and the cleanups
\* pTimeout rejects with a TimeoutError after 3.6e6 ms; the runUpload promise
\* is not cancelled
Timeout ==
  /\ UNCHANGED <<signVars, whatsNew>>
  /\ pc = "awaitUpload"
  /\ inFlight
  /\ setFailed(Msg("Promise timed out after 3600000 milliseconds"))
  /\ pc' = afterTry(plainText)
  /\ UNCHANGED mainVars
  /\ UNCHANGED uploadVars

\* the finally block of uploadRun with plain-text credentials; an unlink of a
\* file that does not exist throws out of uploadRun into the catch of run
UploadRunFinally ==
  /\ UNCHANGED <<signVars, whatsNew>>
  /\ pc = "uploadRunFinally"
  /\ plainText
  /\ IF credFile
       THEN credFile' = FALSE /\ UNCHANGED failures
       ELSE setFailed(Msg("ENOENT: unlink")) /\ UNCHANGED credFile
  /\ pc' = "runFinally"
  /\ UNCHANGED <<inputs, options, releaseNotes, plainText>>
  /\ UNCHANGED uploadVars

\* the finally block of run with plain-text credentials; an error thrown here
\* is an unhandled rejection of `void run()`, which ends the node20 process
RunFinally ==
  /\ UNCHANGED <<signVars, whatsNew>>
  /\ pc = "runFinally"
  /\ plainText
  /\ IF credFile
       THEN /\ credFile' = FALSE
            /\ pc' = "done"
            /\ UNCHANGED alive
       ELSE /\ pc' = "crashed"
            /\ alive' = FALSE
            /\ UNCHANGED credFile
  /\ UNCHANGED <<inputs, options, releaseNotes, plainText, failures>>
  /\ UNCHANGED <<upc, appEditId, idx, versionCode, versionCodes, urls,
                 calls, outputs, exported, result, late>>

\* ------------------------------------------------------- signRun, main.ts
\* what a sign-mode run leaves alone
publishVars == <<upc, alive, inputs, options, releaseNotes, plainText, credFile,
                 appEditId, idx, versionCode, versionCodes, urls, calls,
                 result, late>>

\* where run() goes when signRun has returned: its finally block does
\* nothing without the serviceAccountJsonPlainText input
afterSign == IF plainText THEN "runFinally" ELSE "done"

\* the catch block of signRun
throw(m) == setFailed(Msg(m)) /\ pc' = afterSign

\* logger.e(message)
loggerE(m) == logged' = Append(logged, m)

\* path.join(releaseDir, releaseFile.name) of the file at `i`, zero-based: the
\* name up to its extension, and the extension
releaseFilePath(i) ==
  [stem |-> "dir/app" \o ToString(i), ext |-> "." \o releaseFiles[i + 1]]

pathText(file) == file.stem \o file.ext

\* apkFile.replace('.apk', to)
replace(file, to) ==
  IF file.ext = ".apk" THEN file.stem \o to ELSE pathText(file)

\* variant: a bundle is signed like an apk
signerOf_apkOnly(releaseFile) ==
  IF endsWith(releaseFile, "apk") \/ endsWith(releaseFile, "aab")
    THEN "signApkFile" ELSE ""

\* the dispatch of signRun on the extension of the file's name
signerOf(releaseFile) ==
  IF endsWith(releaseFile, "apk") THEN "signApkFile"
  ELSE IF endsWith(releaseFile, "aab") THEN "signAabFile"
  ELSE ""

\* variant: the positions are numbered from one
outputIndex_oneBased(i) == i + 1

\* the ${index} of the names SIGNED_RELEASE_FILE_${index} and
\* signedReleaseFile${index}
outputIndex(i) == i

\* the end of the loop body: the result is exported, set as an output and
\* pushed, and the loop goes on
record(signedReleaseFile) ==
  /\ exported' = Append(exported,
       [name |-> "SIGNED_RELEASE_FILE_" \o ToString(outputIndex(index)),
        value |-> signedReleaseFile])
  /\ outputs' = Append(outputs,
       [name |-> "signedReleaseFile" \o ToString(outputIndex(index)),
        value |-> signedReleaseFile])
  /\ signedReleaseFiles' = Append(signedReleaseFiles, signedReleaseFile)
  /\ index' = index + 1
  /\ pc' = "signReleaseFile"

\* what a tool run by exec ends with: its exit code, or none when the
\* executable could not be started
ExitCodes == {0, 1, Undefined}

\* await exec(tool, args): exec throws unless the tool exits with zero
exec(tool, args, exit, onSuccess) ==
  /\ execs' = Append(execs,
       [tool |-> tool, args |-> args, file |-> index, exit |-> exit])
  /\ IF exit = 0
       THEN onSuccess /\ UNCHANGED failures
       ELSE /\ throw(IF exit = Undefined
                       THEN "There was an error when attempting to execute the process"
                       ELSE "The process failed with exit code 1")
            /\ UNCHANGED <<outputs, exported, signedReleaseFiles, index>>

\* io.findReleaseFiles(releaseDir): the files of the directory that are
\* candidate release artifacts, in the order they are found; none, or up to
\* MaxFiles files of any extension
findReleaseFiles == FileLists

\* signRun up to its loop
signRun ==
  /\ pc = "signRun"
  /\ IF processEnv.debug
       THEN /\ pc' = afterSign
            /\ UNCHANGED <<releaseFiles, signingKey, failures, logged>>
       ELSE \E found \in findReleaseFiles :
              /\ releaseFiles' = found
              /\ IF Len(found) # 0
                   THEN /\ signingKey' = TRUE
                        /\ pc' = "signReleaseFile"
                        /\ UNCHANGED <<failures, logged>>
                   ELSE /\ loggerE("No release files (.apk or .aab) could be found. Abort.")
                        /\ setFailed(Msg("No release files (.apk or .aab) could be found."))
                        /\ pc' = afterSign
                        /\ UNCHANGED signingKey
  /\ UNCHANGED <<processEnv, index, signedReleaseFiles, execs, outputs, exported>>
  /\ UNCHANGED <<publishVars, whatsNew>>

\* variant: signApkFile throws when the build-tools directory does not exist
afterBuildToolsCheck_throw(found) == IF found THEN "zipalign" ELSE "throw"

\* if (!fs.existsSync(buildTools)) only logs: signApkFile goes on to zipalign
\* whether the directory was found or not
afterBuildToolsCheck(found) == "zipalign"

\* the loop body of signRun for the file at `index`, up to the first await of
\* its signer
signReleaseFile ==
  /\ pc = "signReleaseFile"
  /\ index < Len(releaseFiles)
  /\ LET signer == signerOf(releaseFiles[index + 1]) IN
       IF signer = "signApkFile"
         THEN /\ IF processEnv.buildTools
                   THEN UNCHANGED logged
                   ELSE loggerE("Couldnt find the Android build tools")
              /\ IF afterBuildToolsCheck(processEnv.buildTools) = "throw"
                   THEN throw("Couldnt find the Android build tools")
                   ELSE pc' = "zipalign" /\ UNCHANGED failures
              /\ UNCHANGED <<outputs, exported, signedReleaseFiles, index>>
       ELSE IF signer = "signAabFile"
         THEN /\ pc' = "which"
              /\ UNCHANGED <<logged, failures, outputs, exported,
                             signedReleaseFiles, index>>
       ELSE /\ loggerE("No valid release file to sign, abort.")
            /\ setFailed(Msg("No valid release file to sign."))
            /\ record("")
  /\ UNCHANGED <<processEnv, releaseFiles, signingKey, execs>>
  /\ UNCHANGED <<publishVars, whatsNew>>

\* ------------------------------------------------- signApkFile, signing.ts
alignedApkFile == replace(releaseFilePath(index), "-aligned.apk")

signedApkFile == replace(releaseFilePath(index), "-signed.apk")

\* variant: the signed file is not verified
afterStep_unverified(step) ==
  IF step = "zipalign" THEN "cp"
  ELSE IF step = "cp" THEN "apksignerSign"
  ELSE "return"

\* the order of the awaits of signApkFile
afterStep(step) ==
  IF step = "zipalign" THEN "cp"
  ELSE IF step = "cp" THEN "apksignerSign"
  ELSE IF step = "apksignerSign" THEN "apksignerVerify"
  ELSE "return"

\* signApkFile goes on after the await at `step`
goOn(step) ==
  IF afterStep(step) = "return"
    THEN record(signedApkFile)
    ELSE /\ pc' = afterStep(step)
         /\ UNCHANGED <<outputs, exported, signedReleaseFiles, index>>

\* a tool of the build-tools directory cannot be started when the directory
\* does not exist
fromBuildTools(exit) == ~processEnv.buildTools => exit = Undefined

zipalign ==
  /\ pc = "zipalign"
  /\ \E exit \in ExitCodes :
       /\ fromBuildTools(exit)
       /\ exec("zipalign", <<"-c", "-v", "4", pathText(releaseFilePath(index))>>,
               exit, goOn("zipalign"))
  /\ UNCHANGED <<processEnv, releaseFiles, signingKey, logged>>
  /\ UNCHANGED <<publishVars, whatsNew>>

cp ==
  /\ pc = "cp"
  /\ \E exit \in ExitCodes :
       exec("cp", <<pathText(releaseFilePath(index)), alignedApkFile>>,
            exit, goOn("cp"))
  /\ UNCHANGED <<processEnv, releaseFiles, signingKey, logged>>
  /\ UNCHANGED <<publishVars, whatsNew>>

apksignerSign ==
  /\ pc = "apksignerSign"
  /\ \E exit \in ExitCodes :
       /\ fromBuildTools(exit)
       /\ exec("apksigner",
               <<"sign", "--ks", "dir/signingKey.jks", "--out", signedApkFile,
                 alignedApkFile>>,
               exit, goOn("apksignerSign"))
  /\ UNCHANGED <<processEnv, releaseFiles, signingKey, logged>>
  /\ UNCHANGED <<publishVars, whatsNew>>

apksignerVerify ==
  /\ pc = "apksignerVerify"
  /\ \E exit \in ExitCodes :
       /\ fromBuildTools(exit)
       /\ exec("apksigner", <<"verify", signedApkFile>>,
               exit, goOn("apksignerVerify"))
  /\ UNCHANGED <<processEnv, releaseFiles, signingKey, logged>>
  /\ UNCHANGED <<publishVars, whatsNew>>

\* ------------------------------------------------- signAabFile, signing.ts
\* await io.which('jarsigner', true) throws when there is no jarsigner
which ==
  /\ pc = "which"
  /\ IF processEnv.jarsigner
       THEN pc' = "jarsigner" /\ UNCHANGED failures
       ELSE throw("Unable to locate executable file: jarsigner")
  /\ UNCHANGED <<outputs, exported>>
  /\ UNCHANGED <<signVars, whatsNew>>
  /\ UNCHANGED <<publishVars, whatsNew>>

\* variant: the bundle's signed path is derived like an apk's
signedAabFile_derived(aabFile) == aabFile.stem \o "-signed" \o aabFile.ext

\* what signAabFile returns
signedAabFile(aabFile) == pathText(aabFile)

jarsigner ==
  /\ pc = "jarsigner"
  /\ \E exit \in ExitCodes :
       exec("jarsigner",
            <<"-keystore", "dir/signingKey.jks",
              pathText(releaseFilePath(index)), "alias">>,
            exit, record(signedAabFile(releaseFilePath(index))))
  /\ UNCHANGED <<processEnv, releaseFiles, signingKey, logged>>
  /\ UNCHANGED <<publishVars, whatsNew>>

\* signedReleaseFiles.join(':')
RECURSIVE join(_)
join(list) ==
  IF Len(list) = 0 THEN ""
  ELSE IF Len(list) = 1 THEN list[1]
  ELSE list[1] \o ":" \o join(Tail(list))

\* if (signedReleaseFiles.length == 1)
isSingle(list) == Len(list) = 1

\* signRun after its loop
exportSignedReleaseFiles ==
  /\ pc = "signReleaseFile"
  /\ index = Len(releaseFiles)
  /\ LET single(name) ==
           IF isSingle(signedReleaseFiles)
             THEN <<[name |-> name, value |-> signedReleaseFiles[1]]>>
             ELSE <<>>
         count == ToString(Len(signedReleaseFiles))
     IN /\ exported' = exported \o
             <<[name |-> "SIGNED_RELEASE_FILES", value |-> join(signedReleaseFiles)],
               [name |-> "NOF_SIGNED_RELEASE_FILES", value |-> count]>>
             \o single("SIGNED_RELEASE_FILE")
        /\ outputs' = outputs \o
             <<[name |-> "signedReleaseFiles", value |-> join(signedReleaseFiles)],
               [name |-> "nofSignedReleaseFiles", value |-> count]>>
             \o single("signedReleaseFile")
  /\ pc' = afterSign
  /\ UNCHANGED failures
  /\ UNCHANGED <<signVars, whatsNew>>
  /\ UNCHANGED <<publishVars, whatsNew>>

\* what the environment of a sign-mode run can be
Envs == [debug : BOOLEAN, buildTools : BOOLEAN, jarsigner : BOOLEAN]

\* run() with type=sign
SignInit ==
  /\ pc = "signRun"
  /\ upc = "idle"
  /\ alive = TRUE
  /\ inputs = NoInputs
  /\ options = NoOptions
  /\ releaseNotes = <<>>
  /\ plainText \in BOOLEAN
  /\ credFile = FALSE
  /\ appEditId = ""
  /\ idx = 1
  /\ versionCode = 0
  /\ versionCodes = <<>>
  /\ urls = <<>>
  /\ calls = <<>>
  /\ failures = <<>>
  /\ outputs = <<>>
  /\ exported = <<>>
  /\ result = ""
  /\ late = FALSE
  /\ notReading
  /\ processEnv \in Envs
  /\ releaseFiles = <<>>
  /\ signingKey = FALSE
  /\ index = 0
  /\ signedReleaseFiles = <<>>
  /\ execs = <<>>
  /\ logged = <<>>

SignNext ==
  \/ signRun
  \/ signReleaseFile
  \/ zipalign
  \/ cp
  \/ apksignerSign
  \/ apksignerVerify
  \/ which
  \/ jarsigner
  \/ exportSignedReleaseFiles
  \/ RunFinally

SignSpec == SignInit /\ [][SignNext]_vars

Next ==
  \/ GetReleaseNotes
  \/ ValidateServiceAccountJson
  \/ ValidateInputs
  \/ RunUpload
  \/ getOrCreateEdit
  \/ validateSelectedTrack
  \/ uploadReleaseFiles
  \/ uploadMappingFile
  \/ uploadDebugSymbolsFile
  \/ addReleasesToTrack
  \/ commit
  \/ uploadInternalSharingRelease
  \/ Timeout
  \/ UploadRunFinally
  \/ RunFinally

Spec == Init /\ [][Next]_vars

\* -------------------------------------------------------- run(), main.ts
\* run() up to the first await of the mode it dispatches to; raw: the
\* serviceAccountJsonPlainText input is set, which the finally block of run
\* reads in every mode
run ==
  /\ pc = "run"
  /\ \E type \in {"upload", "sign", "other"}, raw \in BOOLEAN, e \in Envs :
       IF type = "upload"
         THEN /\ pc' = "getReleaseNotes"
              /\ UNCHANGED <<plainText, processEnv, failures>>
       ELSE IF type = "sign"
         THEN /\ pc' = "signRun"
              /\ plainText' = raw
              /\ processEnv' = e
              /\ UNCHANGED failures
       ELSE /\ setFailed(Msg("Unknown type"))
            /\ pc' = IF raw THEN "runFinally" ELSE "done"
            /\ plainText' = raw
            /\ UNCHANGED processEnv
  /\ UNCHANGED <<upc, alive, inputs, options, releaseNotes, credFile, appEditId,
                 idx, versionCode, versionCodes, urls, calls, outputs, exported,
                 result, late>>
  /\ UNCHANGED <<releaseFiles, signingKey, index, signedReleaseFiles, execs,
                 logged, whatsNew>>

RunInit ==
  /\ pc = "run"
  /\ upc = "idle"
  /\ alive = TRUE
  /\ inputs = NoInputs
  /\ options = NoOptions
  /\ releaseNotes = <<>>
  /\ plainText = FALSE
  /\ credFile = FALSE
  /\ appEditId = ""
  /\ idx = 1
  /\ versionCode = 0
  /\ versionCodes = <<>>
  /\ urls = <<>>
  /\ calls = <<>>
  /\ failures = <<>>
  /\ outputs = <<>>
  /\ exported = <<>>
  /\ result = ""
  /\ late = FALSE
  /\ notReading
  /\ noSigning

RunNext == run \/ Next \/ SignNext

RunSpec == RunInit /\ [][RunNext]_vars

\* ------------------------------------ readLocalizedReleaseNotes, whatsnew.ts
\* A file name is the sequence of its pieces: the literal "whatsnew-", words
\* (letters and digits) and the separators "-" and "."
FileNames ==
  {<<"whatsnew-", "en", "-", "US">>,
   <<"whatsnew-", "ko", "-", "KR">>,
   <<"whatsnew-", "fr">>,
   <<"whatsnew-", "en", "-", "US", ".", "txt">>,
   <<"old", "-", "whatsnew-", "en", "-", "US">>,
   <<"whatsnew-">>,
   <<"whatsnew-", "-">>,
   <<"README", ".", "md">>}

FileContents == {"", "test_changelog_file"}

Dirents == [name : FileNames, content : FileContents]

\* the directories of up to MaxDirents files, in the order readdirSync lists
\* them; no two files of a directory have the same name
Directories ==
  UNION {{d \in [1..n -> Dirents] :
            \A i \in 1..n, j \in 1..n : i # j => d[i].name # d[j].name} :
         n \in 0..MaxDirents}

RECURSIVE concat(_)
\* the text of a sequence of pieces
concat(pieces) ==
  IF pieces = <<>> THEN "" ELSE Head(pieces) \o concat(Tail(pieces))

\* the piece holds a word character
hasWordChar(piece) == piece \notin {"-", "."}

\* /whatsnew-((.*-.*)|(.*))\b/.test(value), not anchored: "whatsnew-" occurs
\* and a word boundary lies somewhere after it
test(value) ==
  \E i \in 1..Len(value) :
    /\ value[i] = "whatsnew-"
    /\ \E j \in (i + 1)..Len(value) : hasWordChar(value[j])

\* value.match(/whatsnew-(?<local>(.*-.*)|(.*))/)[1]: all that follows the
\* leftmost "whatsnew-"; "" when the pattern does not match
local(value) ==
  IF \E i \in 1..Len(value) : value[i] = "whatsnew-"
    THEN LET first == CHOOSE i \in 1..Len(value) :
                        /\ value[i] = "whatsnew-"
                        /\ \A j \in 1..(i - 1) : value[j] # "whatsnew-"
         IN concat(SubSeq(value, first + 1, Len(value)))
    ELSE ""

\* what no step of readLocalizedReleaseNotes changes
runVars == <<pc, upc, alive, inputs, options, releaseNotes, plainText, credFile,
             appEditId, idx, versionCode, versionCodes, urls, calls, failures,
             outputs, exported, result, late, signVars>>

\* the entry of readLocalizedReleaseNotes: the test of its argument, and
\* readdirSync with the filter
readLocalizedReleaseNotes ==
  /\ whatsNew.pc = "call"
  /\ IF whatsNew.whatsNewDir = ""
       THEN whatsNew' = [whatsNew EXCEPT !.pc = "undefined"]
     ELSE IF ~whatsNew.readable
       THEN whatsNew' = [whatsNew EXCEPT
                           !.pc = "thrown",
                           !.fsCalls = Append(@, "readdirSync")]
     ELSE whatsNew' = [whatsNew EXCEPT
                         !.pc = "loop",
                         !.releaseNotes =
                            SelectSeq(whatsNew.dirents, LAMBDA e : test(e.name)),
                         !.fsCalls = Append(@, "readdirSync")]
  /\ UNCHANGED runVars

\* one round of its loop: match, readFile and push
readFile ==
  /\ whatsNew.pc = "loop"
  /\ whatsNew.at <= Len(whatsNew.releaseNotes)
  /\ LET value == whatsNew.releaseNotes[whatsNew.at] IN
     \E ok \in BOOLEAN :
       whatsNew' =
         IF ok
           THEN [whatsNew EXCEPT
                   !.at = @ + 1,
                   !.localizedReleaseNotes =
                      Append(@, [language |-> local(value.name),
                                 text |-> value.content]),
                   !.fsCalls = Append(@, "readFile " \o concat(value.name))]
           ELSE [whatsNew EXCEPT
                   !.pc = "thrown",
                   !.fsCalls = Append(@, "readFile " \o concat(value.name))]
  /\ UNCHANGED runVars

\* return localizedReleaseNotes
returnLocalizedReleaseNotes ==
  /\ whatsNew.pc = "loop"
  /\ whatsNew.at > Len(whatsNew.releaseNotes)
  /\ whatsNew' = [whatsNew EXCEPT !.pc = "returned"]
  /\ UNCHANGED runVars

\* a call of readLocalizedReleaseNotes on any directory
WhatsNewInit ==
  /\ pc = "done"
  /\ upc = "idle"
  /\ alive = TRUE
  /\ inputs = NoInputs
  /\ options = NoOptions
  /\ releaseNotes = <<>>
  /\ plainText = FALSE
  /\ credFile = FALSE
  /\ appEditId = ""
  /\ idx = 1
  /\ versionCode = 0
  /\ versionCodes = <<>>
  /\ urls = <<>>
  /\ calls = <<>>
  /\ failures = <<>>
  /\ outputs = <<>>
  /\ exported = <<>>
  /\ result = ""
  /\ late = FALSE
  /\ noSigning
  /\ \E dir \in {"", "whatsnew"}, readable \in BOOLEAN, dirents \in Directories :
       whatsNew = [NoWhatsNew EXCEPT
                     !.pc = "call", !.whatsNewDir = dir,
                     !.readable = readable, !.dirents = dirents]

WhatsNewNext ==
  readLocalizedReleaseNotes \/ readFile \/ returnLocalizedReleaseNotes

WhatsNewSpec == WhatsNewInit /\ [][WhatsNewNext]_vars

\* uploadRun from its validations on, over every value the inputs can parse
\* to, up to the call of runUpload: the release notes were not requested and
\* the credentials were given as a file path
ValidationInit ==
  /\ pc = "validateInputs"
  /\ upc = "idle"
  /\ alive = TRUE
  /\ inputs = NoInputs
  /\ options = NoOptions
  /\ releaseNotes = <<>>
  /\ plainText = FALSE
  /\ credFile = FALSE
  /\ appEditId = ""
  /\ idx = 1
  /\ versionCode = 0
  /\ versionCodes = <<>>
  /\ urls = <<>>
  /\ calls = <<>>
  /\ failures = <<>>
  /\ outputs = <<>>
  /\ exported = <<>>
  /\ result = ""
  /\ late = FALSE
  /\ notReading
  /\ noSigning

ValidationNext == ValidateAnyInputs

ValidationSpec == ValidationInit /\ [][ValidationNext]_vars

TypeOK ==
  /\ pc \in {"getReleaseNotes", "validateServiceAccountJson", "validateInputs",
             "runUpload", "awaitUpload", "uploadRunFinally", "runFinally",
             "done", "crashed"}
  /\ idx \in 1..(MaxFiles + 1)
  /\ Len(versionCodes) <= MaxFiles

\* ------------------------------------------------------------- properties
isInsert(c) == c.api = "edits.insert"
isList(c) == c.api = "edits.tracks.list"
isUpload(c) == c.api \in {"edits.apks.upload", "edits.bundles.upload"}
isSharingUpload(c) ==
  c.api \in {"internalappsharingartifacts.uploadapk",
             "internalappsharingartifacts.uploadbundle"}
isSideUpload(c) ==
  c.api \in {"edits.deobfuscationfiles.upload proguard",
             "edits.deobfuscationfiles.upload nativeCode"}
isUpdate(c) == c.api = "edits.tracks.update"
isCommit(c) == c.api = "edits.commit"
isEditScoped(c) ==
  isList(c) \/ isUpload(c) \/ isSideUpload(c) \/ isUpdate(c) \/ isCommit(c)

standardTrack == upc # "idle" /\ options.track # InternalSharing
sharingTrack == upc # "idle" /\ options.track = InternalSharing
runEnded == pc \in {"done", "crashed"}

\* the answer of a track listing names the requested track
listsTrack(c, track) ==
  /\ c.status = 200
  /\ c.listed
  /\ \E i \in 1..Len(c.tracks) : c.tracks[i].track = track

\* C1: once one of the validations of uploadRun (rollout fraction, status and
\* its coupling to the fraction, update priority, resolved release files) has
\* rejected its input, the run is marked failed, runUpload is never started
\* and no remote call is issued.
C1_InputRejected ==
  /\ inputs.read
  /\ \/ validateUserFraction(inputs.userFraction) # ""
     \/ validateStatus(inputs.status,
                       inputs.userFraction # Undefined /\ ~isNaN(inputs.userFraction)) # ""
     \/ validateInAppUpdatePriority(inputs.inAppUpdatePriority) # ""
     \/ validateReleaseFiles(inputs.releaseFiles) # ""

C1_ValidationFailureIssuesNoCall ==
  C1_InputRejected => failed /\ calls = <<>> /\ upc = "idle"

C1_Witness ==
  /\ C1_InputRejected
  /\ validateUserFraction(inputs.userFraction) = ""
  /\ Len(inputs.releaseFiles) = 0
  /\ runEnded

\* C2: on a standard track no call follows a call that failed, a commit is the
\* last call and is issued only after the edit was acquired, the track was
\* listed and found, every artifact and every configured side file was
\* uploaded and the track was updated, each successfully; and once the publish
\* has rejected no remote call is issued any more.
C2_CommitOnlyAfterSuccess ==
  standardTrack =>
    /\ \A k \in 1..(Len(calls) - 1) : calls[k].ok
    /\ \A k \in 1..Len(calls) :
         isCommit(calls[k]) =>
           /\ k = Len(calls)
           /\ appEditId # ""
           /\ \E j \in 1..(k - 1) : isList(calls[j]) /\ calls[j].ok
           /\ \A i \in 1..Len(options.releaseFiles) :
                /\ \E j \in 1..(k - 1) :
                     isUpload(calls[j]) /\ calls[j].file = i /\ calls[j].ok
                /\ (options.releaseFiles[i] = "apk" /\ options.mappingFile # "") =>
                     \E j \in 1..(k - 1) :
                       /\ calls[j].api = "edits.deobfuscationfiles.upload proguard"
                       /\ calls[j].file = i /\ calls[j].ok
                /\ (options.releaseFiles[i] = "apk" /\ options.debugSymbols # "") =>
                     \E j \in 1..(k - 1) :
                       /\ calls[j].api = "edits.deobfuscationfiles.upload nativeCode"
                       /\ calls[j].file = i /\ calls[j].ok
           /\ k > 1 /\ isUpdate(calls[k - 1]) /\ calls[k - 1].ok

C2_NoCallAfterFailure ==
  /\ [](C2_CommitOnlyAfterSuccess)
  /\ [][upc = "rejected" => calls' = calls]_vars

C2_Witness ==
  /\ standardTrack
  /\ upc = "rejected"
  /\ runEnded
  /\ Len(calls) >= 3
  /\ isUpload(calls[Len(calls)])
  /\ ~calls[Len(calls)].ok

\* C3: when a standard-track publish of N artifacts has resolved, the calls
\* other than side uploads are, in this order: the edit creation (when no
\* edit id was supplied), one track listing, the N artifact uploads in input
\* order each by the call of its kind, one track update with exactly one
\* release, one commit; and the result is the id the commit answered.
C3_mainCalls == SelectSeq(calls, LAMBDA c : ~isSideUpload(c))

C3_SuccessfulPublishOrder ==
  (standardTrack /\ upc = "resolved") =>
    LET main == C3_mainCalls
        N == Len(options.releaseFiles)
        off == IF options.existingEditId = "" THEN 1 ELSE 0
    IN /\ Len(main) = off + N + 3
       /\ off = 1 => isInsert(main[1])
       /\ isList(main[off + 1])
       /\ \A i \in 1..N :
            /\ main[off + 1 + i].file = i
            /\ main[off + 1 + i].api =
                 IF options.releaseFiles[i] = "apk"
                   THEN "edits.apks.upload" ELSE "edits.bundles.upload"
       /\ isUpdate(main[off + N + 2])
       /\ Len(main[off + N + 2].releases) = 1
       /\ isCommit(main[off + N + 3])
       /\ result # ""
       /\ result = main[off + N + 3].ret

C3_Witness ==
  /\ standardTrack
  /\ upc = "resolved"
  /\ options.existingEditId = ""
  /\ options.releaseFiles = <<"apk", "aab">>
  /\ result = "C2"

\* C4: on the internal-sharing track the only remote calls are the two
\* internal-sharing uploads; no edit is created, listed against, updated or
\* committed and no edit id is taken up, also when one was supplied.
C4_SharingBypassesEdit ==
  sharingTrack =>
    /\ appEditId = ""
    /\ \A k \in 1..Len(calls) : isSharingUpload(calls[k]) /\ calls[k].editId = ""

C4_Witness ==
  /\ sharingTrack
  /\ options.existingEditId # ""
  /\ upc = "resolved"
  /\ Len(calls) = 2

\* C5: on a standard track a track listing that threw, answered a status
\* other than 200, answered no track list or a list without the requested
\* track is the last remote call and the publish has rejected and the run is
\* marked failed; every upload, side upload, track update and commit is
\* preceded by a listing that named the requested track.
C5_TrackValidatedBeforeUpload ==
  standardTrack =>
    /\ \A k \in 1..Len(calls) :
         (isList(calls[k]) /\ ~listsTrack(calls[k], options.track)) =>
           k = Len(calls) /\ upc = "rejected" /\ failed
    /\ \A k \in 1..Len(calls) :
         (isUpload(calls[k]) \/ isSideUpload(calls[k]) \/ isUpdate(calls[k])
            \/ isCommit(calls[k])) =>
           \E j \in 1..(k - 1) :
             isList(calls[j]) /\ listsTrack(calls[j], options.track)

C5_Witness ==
  /\ standardTrack
  /\ runEnded
  /\ \E k \in 1..Len(calls) :
       /\ isList(calls[k])
       /\ calls[k].status = 200 /\ calls[k].listed
       /\ Len(calls[k].tracks) = 2
       /\ ~listsTrack(calls[k], options.track)

\* C6: a reported "track could not be found" failure names the requested
\* track and lists the names of all tracks the listing answered, in the
\* answered order; and a listing that answered tracks without the requested
\* one is reported that way unless the run had already timed out.
C6_namesMatch(m, c) ==
  /\ m.track = options.track
  /\ Len(m.names) = Len(c.tracks)
  /\ \A j \in 1..Len(c.tracks) : m.names[j] = c.tracks[j].track

C6_isTrackNotFound(m) == m.text = "Track could not be found. Available tracks are:"

C6_timedOut ==
  \E i \in 1..Len(failures) :
    failures[i].text = "Promise timed out after 3600000 milliseconds"

C6_TrackNotFoundListsTracks ==
  /\ \A i \in 1..Len(failures) :
       C6_isTrackNotFound(failures[i]) =>
         \E k \in 1..Len(calls) :
           isList(calls[k]) /\ calls[k].listed /\ C6_namesMatch(failures[i], calls[k])
  /\ \A k \in 1..Len(calls) :
       (/\ standardTrack
        /\ isList(calls[k]) /\ calls[k].status = 200 /\ calls[k].listed
        /\ ~listsTrack(calls[k], options.track)
        /\ ~C6_timedOut) =>
         \E i \in 1..Len(failures) :
           C6_isTrackNotFound(failures[i]) /\ C6_namesMatch(failures[i], calls[k])

C6_Witness ==
  \E i \in 1..Len(failures) :
    /\ C6_isTrackNotFound(failures[i])
    /\ failures[i].names = <<"beta", "alpha">>
    /\ failures[i].track = "production"

\* C7: on a standard track, once the edit has been acquired or has failed to
\* be: with a supplied edit id no edit is created and the supplied id is the
\* edit id; without one exactly one edit creation was issued, as the first
\* call, and its answered id is the edit id, and when it answered no id it is
\* the only remote call and the publish has rejected.
C7_inserts == SelectSeq(calls, isInsert)

C7_EditAcquisition ==
  (standardTrack /\ upc # "getOrCreateEdit") =>
    IF options.existingEditId # ""
      THEN C7_inserts = <<>> /\ appEditId = options.existingEditId
      ELSE /\ Len(C7_inserts) = 1
           /\ isInsert(calls[1])
           /\ appEditId = calls[1].ret
           /\ calls[1].ret = "" => Len(calls) = 1 /\ upc = "rejected"

C7_Witness ==
  /\ standardTrack
  /\ runEnded
  /\ options.existingEditId = ""
  /\ Len(calls) = 1
  /\ calls[1].ret = ""
  /\ upc = "rejected"

C7_WitnessExisting ==
  /\ standardTrack
  /\ options.existingEditId = "E9"
  /\ upc = "resolved"

\* C8: every edit-scoped call (track listing, artifact upload, side upload,
\* track update, commit) carries the acquired edit id, which is not empty, and
\* at most one edit creation is issued.
C8_SingleEditId ==
  /\ \A k \in 1..Len(calls) :
       isEditScoped(calls[k]) => calls[k].editId = appEditId /\ appEditId # ""
  /\ Len(SelectSeq(calls, isInsert)) <= 1

C8_Witness ==
  /\ standardTrack
  /\ upc = "resolved"
  /\ options.existingEditId = "E9"
  /\ \E k \in 1..Len(calls) : isSideUpload(calls[k])
  /\ \E k \in 1..Len(calls) : isCommit(calls[k])

\* C9: the artifact uploads (edit-scoped or internal-sharing) are issued in
\* the order of the artifact list, the j-th upload being that of artifact j by
\* the call of its kind; versionCodes has an entry for every artifact whose
\* iteration has completed, and entry i is the code answered for artifact i,
\* or 0 when the answer had none.
C9_uploads == SelectSeq(calls, LAMBDA c : isUpload(c) \/ isSharingUpload(c))

C9_UploadOrder ==
  LET ups == C9_uploads IN
  /\ Len(ups) <= Len(options.releaseFiles)
  /\ \A j \in 1..Len(ups) :
       /\ ups[j].file = j
       /\ options.releaseFiles[j] = "apk" <=>
            ups[j].api \in {"edits.apks.upload",
                            "internalappsharingartifacts.uploadapk"}
       /\ options.releaseFiles[j] = "aab" <=>
            ups[j].api \in {"edits.bundles.upload",
                            "internalappsharingartifacts.uploadbundle"}
  /\ Len(versionCodes) <= Len(ups)
  /\ standardTrack => Len(ups) <= Len(versionCodes) + 1
  /\ \A i \in 1..Len(versionCodes) :
       /\ isUpload(ups[i]) /\ ups[i].ok
       /\ versionCodes[i] = IF ups[i].code = Undefined THEN 0 ELSE ups[i].code

C9_Witness ==
  /\ Len(versionCodes) = 2
  /\ versionCodes[1] = VersionCodeOf(1)
  /\ versionCodes[2] = VersionCodeOf(2)
  /\ options.releaseFiles = <<"aab", "apk">>

\* C10: the version codes of the release written by the track update are the
\* decimal strings of the recorded version codes without the 0 entries, in
\* the recorded order.
RECURSIVE C10_parse(_)
C10_parse(digits) ==
  IF digits = <<>> THEN 0
  ELSE 10 * C10_parse(SubSeq(digits, 1, Len(digits) - 1)) + digits[Len(digits)]

C10_rank(i) == Cardinality({j \in 1..i : versionCodes[j] # 0})

C10_ReleaseCodesFiltered ==
  \A k \in 1..Len(calls) :
    isUpdate(calls[k]) =>
      /\ Len(calls[k].releases) = 1
      /\ LET written == calls[k].releases[1].versionCodes
         IN /\ Len(written) = C10_rank(Len(versionCodes))
            /\ \A i \in 1..Len(versionCodes) :
                 versionCodes[i] # 0 =>
                   /\ written[C10_rank(i)] # <<>>
                   /\ C10_parse(written[C10_rank(i)]) = versionCodes[i]

C10_Witness ==
  /\ \E k \in 1..Len(calls) :
       isUpdate(calls[k]) /\ calls[k].releases[1].versionCodes = <<(<<1, 0, 0, 2>>)>>
  /\ versionCodes = <<0, VersionCodeOf(2)>>

\* C11: on a standard track an artifact upload that returned without a
\* version code is recorded as the code 0; the step that receives such an
\* answer reports no failure and goes on to the artifact's side files, the
\* next artifact or the track update; and when every recorded code is 0 the
\* release of the track update carries an empty list of version codes.
C11_noCode(c) == isUpload(c) /\ c.ok /\ c.code = Undefined

C11_ZeroRecorded ==
  standardTrack =>
    /\ \A j \in 1..Len(versionCodes) :
         C11_noCode(C9_uploads[j]) => versionCodes[j] = 0
    /\ \A k \in 1..Len(calls) :
         (isUpdate(calls[k]) /\ \A i \in 1..Len(versionCodes) : versionCodes[i] = 0)
           => calls[k].releases[1].versionCodes = <<>>

C11_MissingCodeIsNoFailure ==
  /\ [](C11_ZeroRecorded)
  /\ [][(calls' # calls /\ C11_noCode(calls'[Len(calls')])) =>
          /\ failures' = failures
          /\ upc' \in {"uploadMappingFile", "uploadReleaseFiles", "addReleasesToTrack"}
          /\ (upc' # "uploadMappingFile" =>
                versionCodes' = Append(versionCodes, 0))]_vars

C11_Witness ==
  /\ standardTrack
  /\ upc = "resolved"
  /\ result # ""
  /\ options.releaseFiles = <<"aab", "apk">>
  /\ versionCodes = <<0, 0>>
  /\ \E k \in 1..Len(calls) :
       isUpdate(calls[k]) /\ calls[k].releases[1].versionCodes = <<>>

\* C12: every side upload belongs to an .apk artifact of a standard-track
\* publish and carries that artifact's recorded version code; a mapping-file
\* upload is issued only when the mappingFile option is set and directly after
\* the artifact's own upload; a debug-symbols upload is issued only when the
\* debugSymbols option is set and directly after the artifact's mapping-file
\* upload, or after the artifact's own upload when no mapping file is set.
C12_isMapping(c) == c.api = "edits.deobfuscationfiles.upload proguard"

C12_isSymbols(c) == c.api = "edits.deobfuscationfiles.upload nativeCode"

C12_isApkUploadOf(c, i) == c.api = "edits.apks.upload" /\ c.file = i /\ c.ok

C12_SideUploadsFollowApk ==
  \A k \in 1..Len(calls) :
    isSideUpload(calls[k]) =>
      LET c == calls[k]
          i == c.file
      IN /\ standardTrack
         /\ k > 1
         /\ i \in 1..Len(options.releaseFiles)
         /\ options.releaseFiles[i] = "apk"
         /\ \E j \in 1..(k - 1) :
              /\ C12_isApkUploadOf(calls[j], i)
              /\ c.versionCode =
                   IF calls[j].code = Undefined THEN 0 ELSE calls[j].code
         /\ C12_isMapping(c) =>
              /\ options.mappingFile # ""
              /\ C12_isApkUploadOf(calls[k - 1], i)
         /\ C12_isSymbols(c) =>
              /\ options.debugSymbols # ""
              /\ IF options.mappingFile # ""
                   THEN /\ C12_isMapping(calls[k - 1])
                        /\ calls[k - 1].file = i /\ calls[k - 1].ok
                   ELSE C12_isApkUploadOf(calls[k - 1], i)

C12_Witness ==
  /\ standardTrack
  /\ upc = "resolved"
  /\ options.releaseFiles = <<"aab", "apk">>
  /\ \E k \in 2..(Len(calls) - 1) :
       /\ isUpload(calls[k - 1])
       /\ C12_isMapping(calls[k]) /\ calls[k].file = 2
       /\ C12_isSymbols(calls[k + 1]) /\ calls[k + 1].file = 2

C12_WitnessSkipped ==
  /\ standardTrack
  /\ upc = "resolved"
  /\ options.releaseFiles = <<"apk", "apk">>
  /\ options.mappingFile = ""
  /\ options.debugSymbols # ""
  /\ Len(SelectSeq(calls, isSideUpload)) = 2

\* C13 as stated: a side-upload step (mapping file or debug symbols) never
\* rejects the publish, whether the file cannot be read or the remote call
\* fails.
C13_SideFailureSwallowed ==
  [][(upc \in {"uploadMappingFile", "uploadDebugSymbolsFile"})
       => (upc' # "rejected")]_vars

\* C13 as amended: a side-upload failure is not swallowed.  A side-upload step
\* rejects the publish only when its option is set (an unreadable file or a
\* failing remote call), the rejection is reported as a failure of the run
\* while uploadRun still awaits the publish, and a failed side-upload call is
\* the last remote call: no later artifact is uploaded, the track is not
\* updated and the edit is not committed.
C13_failedSideCallIsLast ==
  \A k \in 1..Len(calls) :
    (isSideUpload(calls[k]) /\ ~calls[k].ok) =>
      /\ k = Len(calls)
      /\ upc = "rejected"
      /\ failed

C13_sideStep(at, option) ==
  (upc = at /\ upc' = "rejected") =>
    /\ option # ""
    /\ \A k \in 1..Len(calls') : ~isUpdate(calls'[k]) /\ ~isCommit(calls'[k])
    /\ pc = "awaitUpload" =>
         /\ Len(failures') = Len(failures) + 1
         /\ pc' = afterTry(plainText)

C13_SideFailureAborts ==
  /\ [](C13_failedSideCallIsLast)
  /\ [][/\ C13_sideStep("uploadMappingFile", options.mappingFile)
        /\ C13_sideStep("uploadDebugSymbolsFile", options.debugSymbols)
        /\ upc = "rejected" => (upc' = "rejected" /\ calls' = calls)]_vars

C13_Witness ==
  /\ standardTrack
  /\ runEnded
  /\ upc = "rejected"
  /\ options.releaseFiles = <<"apk", "aab">>
  /\ Len(calls) >= 2
  /\ C12_isMapping(calls[Len(calls)])
  /\ ~calls[Len(calls)].ok
  /\ failures = <<Msg("edits.deobfuscationfiles.upload failed")>>

C13_WitnessUnreadable ==
  /\ standardTrack
  /\ runEnded
  /\ upc = "rejected"
  /\ options.releaseFiles = <<"apk", "aab">>
  /\ failures = <<Msg("ENOENT: debugSymbols")>>

\* C14: on a standard track with an artifact that is neither .apk nor .aab at
\* position i, no artifact at position i or later is ever uploaded, the track
\* is never updated and the edit never committed, the publish never resolves;
\* the step that reaches the artifact issues no call, rejects the publish and
\* reports the artifact as invalid; and no step removes a call already made,
\* so the uploads before position i stay in the edit.
C14_unsupported(i) ==
  /\ i \in 1..Len(options.releaseFiles)
  /\ options.releaseFiles[i] \notin {"apk", "aab"}

C14_NothingFromUnsupportedOn ==
  standardTrack =>
    \A i \in 1..Len(options.releaseFiles) :
      C14_unsupported(i) =>
        /\ Len(versionCodes) < i
        /\ upc \notin {"addReleasesToTrack", "commit", "resolved"}
        /\ \A k \in 1..Len(calls) :
             /\ ~isUpdate(calls[k]) /\ ~isCommit(calls[k])
             /\ (isUpload(calls[k]) \/ isSideUpload(calls[k])) => calls[k].file < i

C14_UnsupportedArtifactAborts ==
  /\ [](C14_NothingFromUnsupportedOn)
  /\ [][/\ (upc = "uploadReleaseFiles" /\ alive /\ C14_unsupported(idx)
              /\ upc' # upc) =>
             /\ upc' = "rejected"
             /\ calls' = calls
             /\ pc = "awaitUpload" =>
                  failures' = Append(failures,
                    Msg("is invalid (missing or invalid file extension)."))
        /\ Len(calls') >= Len(calls)
        /\ \A k \in 1..Len(calls) : calls'[k] = calls[k]]_vars

C14_Witness ==
  /\ standardTrack
  /\ runEnded
  /\ upc = "rejected"
  /\ options.releaseFiles = <<"aab", "other">>
  /\ isUpload(calls[Len(calls)]) /\ calls[Len(calls)].ok
  /\ failures = <<Msg("is invalid (missing or invalid file extension).")>>

\* C15: for every answer the service gave to the commit: when it carries a
\* commit id the publish has resolved and the id is its result; when it
\* carries none the publish has rejected without a result, the run is marked
\* failed and one reported failure carries the answer's status code and status
\* text; and a result is always the id of a commit answer.
C15_CommitOutcome ==
  /\ \A k \in 1..Len(calls) :
       (isCommit(calls[k]) /\ calls[k].status # 0) =>
         IF calls[k].ret # ""
           THEN upc = "resolved" /\ result = calls[k].ret
           ELSE /\ upc = "rejected"
                /\ result = ""
                /\ failed
                /\ \E i \in 1..Len(failures) :
                     /\ failures[i].text = "Error"
                     /\ failures[i].code = calls[k].status
                     /\ failures[i].statusText = statusTextOf(calls[k].status)
  /\ (upc = "resolved" /\ standardTrack) =>
       /\ result # ""
       /\ isCommit(calls[Len(calls)])
       /\ calls[Len(calls)].ret = result

C15_Witness ==
  /\ runEnded
  /\ upc = "rejected"
  /\ Len(calls) > 0
  /\ isCommit(calls[Len(calls)])
  /\ calls[Len(calls)].status = 200
  /\ calls[Len(calls)].ret = ""
  /\ failures[1].code = 200

\* C16: on the internal-sharing track the k-th remote call is the upload of
\* artifact k, an .apk by the apk call and an .aab by the bundle call; an
\* upload that threw or answered no download URL is the last call, the
\* publish has rejected and the run is marked failed; no call is issued for an
\* artifact at or after one with an unsupported extension, and the publish
\* does not resolve then; a rejected publish issues no further call.
C16_sharingFailed(c) == ~c.ok \/ c.code \in {Undefined, 0}

C16_UploadsInOrderUntilFailure ==
  sharingTrack =>
    /\ Len(calls) <= Len(options.releaseFiles)
    /\ \A k \in 1..Len(calls) :
         /\ calls[k].file = k
         /\ calls[k].api =
              IF options.releaseFiles[k] = "apk"
                THEN "internalappsharingartifacts.uploadapk"
                ELSE "internalappsharingartifacts.uploadbundle"
         /\ options.releaseFiles[k] \in {"apk", "aab"}
         /\ C16_sharingFailed(calls[k]) =>
              k = Len(calls) /\ upc = "rejected" /\ failed
    /\ \A i \in 1..Len(options.releaseFiles) :
         options.releaseFiles[i] \notin {"apk", "aab"} =>
           Len(calls) < i /\ upc # "resolved"
    /\ upc = "rejected" => failed
    /\ upc = "resolved" => Len(calls) = Len(options.releaseFiles)

C16_SharingAbortsOnFirstFailure ==
  /\ [](C16_UploadsInOrderUntilFailure)
  /\ [][(sharingTrack /\ upc = "rejected") =>
          (calls' = calls /\ upc' = "rejected")]_vars

C16_Witness ==
  /\ sharingTrack
  /\ runEnded
  /\ options.releaseFiles = <<"aab", "apk">>
  /\ Len(calls) = 1
  /\ calls[1].code = 0
  /\ failures = <<Msg("Uploaded file has no download URL.")>>

C16_WitnessUnsupported ==
  /\ sharingTrack
  /\ runEnded
  /\ options.releaseFiles = <<"apk", "other">>
  /\ Len(calls) = 1
  /\ upc = "rejected"

C17_named(seq, name) == SelectSeq(seq, LAMBDA o : o.name = name)

C17_obtained == SelectSeq(calls, LAMBDA c : ~C16_sharingFailed(c))

C18_timeoutReported ==
  \E i \in 1..Len(failures) :
    failures[i] = Msg("Promise timed out after 3600000 milliseconds")

C18_TimeoutAbortsPublish ==
  [][(C18_timeoutReported /\ late) => calls' = calls]_vars

\* C19: once uploadRun has validated its inputs, the rollout fraction was
\* rejected (the reported failure is one of validateUserFraction's) exactly
\* when it is present and not a finite number strictly between 0 and 1: an
\* absent fraction and the fractions 0.1 .. 0.9 pass; 0, 1, every fraction
\* below 0 or above 1, NaN and both infinities are rejected.
C19_fractionTexts ==
  {"'userFraction' must be a number!", "'userFraction' must be between 0 and 1!"}

C19_fractionRejected ==
  \E i \in 1..Len(failures) : failures[i].text \in C19_fractionTexts

C19_inRange(f) == f \in 1..(One - 1)

C19_FractionValidation ==
  inputs.read =>
    /\ C19_fractionRejected <=>
         (inputs.userFraction # Undefined /\ ~C19_inRange(inputs.userFraction))
    /\ inputs.userFraction \in {0, One, NaN, Infinity, NegInfinity}
         => C19_fractionRejected
    /\ C19_fractionRejected => (failed /\ pc # "runUpload")
    /\ inputs.userFraction = NaN <=>
         \E i \in 1..Len(failures) :
           failures[i].text = "'userFraction' must be a number!"

C19_Witness ==
  /\ inputs.read
  /\ inputs.userFraction = Infinity
  /\ pc = "done"
  /\ C19_fractionRejected

C19_WitnessEdge ==
  /\ inputs.read
  /\ inputs.userFraction = One - 1
  /\ pc = "runUpload"

\* C20: validateStatus rejects every status other than completed, inProgress,
\* halted and draft (the absent status too) whatever the fraction; it accepts
\* completed and draft exactly without a fraction, and halted and inProgress
\* exactly with one; and once uploadRun has validated inputs whose fraction
\* passed, a failure of validateStatus is reported exactly in those cases.
C20_statusTexts ==
  {"Invalid status provided!", "Status does not support 'userFraction'",
   "Status requires a 'userFraction' to be set"}

C20_statusRejected ==
  \E i \in 1..Len(failures) : failures[i].text \in C20_statusTexts

C20_accepted(status, hasUserFraction) ==
  \/ status \in {"completed", "draft"} /\ ~hasUserFraction
  \/ status \in {"halted", "inProgress"} /\ hasUserFraction

C20_StatusValidation ==
  /\ \A status \in Statuses, hasUserFraction \in BOOLEAN :
       /\ validateStatus(status, hasUserFraction) = ""
            <=> C20_accepted(status, hasUserFraction)
       /\ status \notin {"completed", "inProgress", "halted", "draft"}
            => validateStatus(status, hasUserFraction) = "Invalid status provided!"
  /\ (inputs.read /\ ~C19_fractionRejected) =>
       /\ C20_statusRejected <=>
            ~C20_accepted(inputs.status, inputs.userFraction # Undefined)
       /\ C20_statusRejected => (failed /\ pc # "runUpload")
  /\ (inputs.read /\ C19_fractionRejected) => ~C20_statusRejected

C20_Witness ==
  /\ inputs.read
  /\ inputs.status = "draft"
  /\ inputs.userFraction = 5
  /\ pc = "done"
  /\ failures = <<Msg("Status does not support 'userFraction'")>>

C20_WitnessAbsent ==
  /\ inputs.read
  /\ inputs.status = ""
  /\ inputs.userFraction = 5
  /\ failures = <<Msg("Invalid status provided!")>>

\* C21: once uploadRun has validated inputs whose fraction and status
\* passed, validateInAppUpdatePriority has rejected exactly the priorities
\* that are present and not a number from 0 to 5 (-1, 6 and the NaN that
\* parseInt gives for non-numeric text among them), and every release written
\* by edits.tracks.update carries the validated priority, 0 when none was
\* given.
C21_priorityRejected ==
  \E i \in 1..Len(failures) :
    failures[i].text =
      "inAppUpdatePriority must be between 0 and 5, inclusive-inclusive"

C21_PriorityValidation ==
  /\ (inputs.read /\ ~C19_fractionRejected /\ ~C20_statusRejected) =>
       (C21_priorityRejected <=>
          (inputs.inAppUpdatePriority # Undefined
             /\ inputs.inAppUpdatePriority \notin 0..5))
  /\ \A k \in 1..Len(calls) :
       isUpdate(calls[k]) =>
         \A r \in 1..Len(calls[k].releases) :
           calls[k].releases[r].inAppUpdatePriority =
             IF inputs.inAppUpdatePriority = Undefined
               THEN 0 ELSE inputs.inAppUpdatePriority

\* ------------------------------------------------ properties of sign mode
\* the external tools run for the file at position i, in order
execsOf(i) == SelectSeq(execs, LAMBDA e : e.file = i)

toolsOf(i) == [k \in 1..Len(execsOf(i)) |-> execsOf(i)[k].tool]

\* the positions of the files signRun has dispatched
dispatched == {i \in 0..(Len(releaseFiles) - 1) : i < index \/ execsOf(i) # <<>>}

\* C22: in a signing batch every tool run for a file whose name ends in .apk
\* is zipalign, cp or apksigner and a file that got its result went through
\* zipalign, cp, apksigner sign and apksigner verify; the only tool run for a
\* file ending in .aab is jarsigner, once for a file that got its result; and
\* no tool at all is run for a file with any other extension.
C22_DispatchByExtension ==
  \A i \in 0..(Len(releaseFiles) - 1) :
    LET kind == releaseFiles[i + 1] IN
    /\ kind = "apk" =>
         /\ \A k \in 1..Len(toolsOf(i)) :
              toolsOf(i)[k] \in {"zipalign", "cp", "apksigner"}
         /\ i < index =>
              toolsOf(i) = <<"zipalign", "cp", "apksigner", "apksigner">>
         /\ (i \in dispatched /\ pc # "zipalign") =>
              (Len(toolsOf(i)) > 0 /\ toolsOf(i)[1] = "zipalign")
    /\ kind = "aab" =>
         /\ \A k \in 1..Len(toolsOf(i)) : toolsOf(i)[k] = "jarsigner"
         /\ i < index => toolsOf(i) = <<"jarsigner">>
    /\ kind \notin {"apk", "aab"} => toolsOf(i) = <<>>

C22_Witness ==
  /\ releaseFiles = <<"aab", "apk">>
  /\ index = 2
  /\ toolsOf(0) = <<"jarsigner">>
  /\ Len(toolsOf(1)) = 4

C22_WitnessOther ==
  /\ releaseFiles = <<"other", "aab">>
  /\ index = 2
  /\ Len(execs) = 1

\* C23: for a file ending in .apk, signApkFile runs `zipalign -c -v 4` on the
\* original file, cp of the original to the -aligned path, `apksigner sign`
\* of the aligned copy into the -signed path and `apksigner verify` of the
\* signed copy, in this order and each only after the one before exited with
\* zero; a tool that does not exit with zero is the last tool of the run and
\* marks it failed; and the file's result is recorded exactly when all four
\* exited with zero, and is the -signed path.
C23_original(i) == "dir/app" \o ToString(i) \o ".apk"

C23_aligned(i) == "dir/app" \o ToString(i) \o "-aligned.apk"

C23_signed(i) == "dir/app" \o ToString(i) \o "-signed.apk"

C23_order(i) ==
  << [tool |-> "zipalign", args |-> <<"-c", "-v", "4", C23_original(i)>>],
     [tool |-> "cp", args |-> <<C23_original(i), C23_aligned(i)>>],
     [tool |-> "apksigner",
      args |-> <<"sign", "--ks", "dir/signingKey.jks", "--out", C23_signed(i),
                 C23_aligned(i)>>],
     [tool |-> "apksigner", args |-> <<"verify", C23_signed(i)>>] >>

C23_ApkSigningOrder ==
  \A i \in 0..(Len(releaseFiles) - 1) :
    releaseFiles[i + 1] = "apk" =>
      LET es == execsOf(i) IN
      /\ Len(es) <= 4
      /\ \A k \in 1..Len(es) :
           /\ es[k].tool = C23_order(i)[k].tool
           /\ es[k].args = C23_order(i)[k].args
           /\ k > 1 => es[k - 1].exit = 0
      /\ (Len(es) > 0 /\ es[Len(es)].exit # 0) =>
           /\ execs[Len(execs)] = es[Len(es)]
           /\ failed
           /\ pc \in {"runFinally", "done", "crashed"}
           /\ index = i
           /\ Len(signedReleaseFiles) = i
      /\ i < Len(signedReleaseFiles) <=>
           (Len(es) = 4 /\ \A k \in 1..4 : es[k].exit = 0)
      /\ i < Len(signedReleaseFiles) => signedReleaseFiles[i + 1] = C23_signed(i)

C23_Witness ==
  /\ releaseFiles = <<"apk">>
  /\ Len(execs) = 4
  /\ signedReleaseFiles = <<"dir/app0-signed.apk">>
  /\ pc = "done"
  /\ ~failed

C23_WitnessVerify ==
  /\ releaseFiles = <<"apk", "apk">>
  /\ Len(execs) = 8
  /\ execs[8].exit = 1
  /\ pc = "done"
  /\ failed

\* C24: for a file ending in .aab the only tool run is jarsigner, at most
\* once and against the original file; the file's result is recorded exactly
\* when jarsigner exited with zero, and is the original path; and when
\* jarsigner is not on the PATH no tool is run for the file and the run is
\* marked failed once the file has been reached.
C24_original(i) == "dir/app" \o ToString(i) \o ".aab"

C24_notFound ==
  \E k \in 1..Len(failures) :
    failures[k].text = "Unable to locate executable file: jarsigner"

C24_AabSigning ==
  \A i \in 0..(Len(releaseFiles) - 1) :
    releaseFiles[i + 1] = "aab" =>
      LET es == execsOf(i) IN
      /\ Len(es) <= 1
      /\ \A k \in 1..Len(es) :
           /\ es[k].tool = "jarsigner"
           /\ es[k].args =
                <<"-keystore", "dir/signingKey.jks", C24_original(i), "alias">>
      /\ i < Len(signedReleaseFiles) <=> (Len(es) = 1 /\ es[1].exit = 0)
      /\ i < Len(signedReleaseFiles) => signedReleaseFiles[i + 1] = C24_original(i)
      /\ ~processEnv.jarsigner =>
           /\ es = <<>>
           /\ (index = i /\ pc \notin {"signReleaseFile", "which"}) =>
                (C24_notFound /\ pc \in {"runFinally", "done", "crashed"})
      /\ C24_notFound => ~processEnv.jarsigner

C24_Witness ==
  /\ releaseFiles = <<"aab">>
  /\ Len(execs) = 1
  /\ signedReleaseFiles = <<"dir/app0.aab">>
  /\ pc = "done"
  /\ ~failed

C24_WitnessNotFound ==
  /\ releaseFiles = <<"aab", "apk">>
  /\ execs = <<>>
  /\ C24_notFound
  /\ pc = "done"

\* a named output of the run
hasOutput(name) == \E k \in 1..Len(outputs) : outputs[k].name = name

outputOf(name) ==
  outputs[CHOOSE k \in 1..Len(outputs) : outputs[k].name = name].value

\* a tool of the batch did not exit with zero or could not be found
toolFailed ==
  \/ \E k \in 1..Len(execs) : execs[k].exit # 0
  \/ \E k \in 1..Len(failures) :
       failures[k].text = "Unable to locate executable file: jarsigner"

\* C26: when a tool has failed for one file of a signing batch and the run
\* has ended, the run is marked failed, every other file of the batch has
\* its per-index output and the joined-list and count outputs are set.
C26_ToolFailureDegrades ==
  (toolFailed /\ runEnded) =>
    /\ failed
    /\ \A i \in 0..(Len(releaseFiles) - 1) :
         i # index => hasOutput("signedReleaseFile" \o ToString(i))
    /\ hasOutput("signedReleaseFiles")
    /\ hasOutput("nofSignedReleaseFiles")

\* C25: once a signing batch has passed a file with an unsupported extension,
\* the empty path is recorded at that file's position and set as its
\* per-index output, the run is marked failed, and when the run has ended
\* every later file of the batch has its per-index output.
C25_UnsupportedDoesNotAbort ==
  \A i \in 0..(Len(releaseFiles) - 1) :
    (releaseFiles[i + 1] \notin {"apk", "aab"} /\ i < index) =>
      /\ signedReleaseFiles[i + 1] = ""
      /\ hasOutput("signedReleaseFile" \o ToString(i))
      /\ outputOf("signedReleaseFile" \o ToString(i)) = ""
      /\ failed
      /\ runEnded =>
           \A j \in (i + 1)..(Len(releaseFiles) - 1) :
             hasOutput("signedReleaseFile" \o ToString(j))

\* C27: the outputs of a signing batch are, in order, one signedReleaseFile<i>
\* per file passed, numbered from zero in the order of the files and holding
\* that file's result (the -signed path of an apk, the path of a bundle, the
\* empty path of an unsupported file, with nothing renumbered around it);
\* and once the batch has completed there is one per file, then
\* signedReleaseFiles joining exactly these results in that order with ':',
\* then nofSignedReleaseFiles holding the number of files; the exported
\* variables follow the same rule.
C27_resultOf(i) ==
  IF releaseFiles[i + 1] = "apk" THEN "dir/app" \o ToString(i) \o "-signed.apk"
  ELSE IF releaseFiles[i + 1] = "aab" THEN "dir/app" \o ToString(i) \o ".aab"
  ELSE ""

RECURSIVE C27_joined(_)
C27_joined(n) ==
  IF n = 0 THEN ""
  ELSE IF n = 1 THEN C27_resultOf(0)
  ELSE C27_joined(n - 1) \o ":" \o C27_resultOf(n - 1)

C27_completed == Len(outputs) > index

C27_ResultsKeyedByPosition ==
  LET N == Len(releaseFiles) IN
  /\ Len(outputs) >= index /\ Len(exported) = Len(outputs)
  /\ \A k \in 1..index :
       /\ outputs[k] = [name |-> "signedReleaseFile" \o ToString(k - 1),
                        value |-> C27_resultOf(k - 1)]
       /\ exported[k] = [name |-> "SIGNED_RELEASE_FILE_" \o ToString(k - 1),
                         value |-> C27_resultOf(k - 1)]
  /\ C27_completed =>
       /\ index = N
       /\ outputs[N + 1] = [name |-> "signedReleaseFiles", value |-> C27_joined(N)]
       /\ outputs[N + 2] = [name |-> "nofSignedReleaseFiles", value |-> ToString(N)]
       /\ exported[N + 1] = [name |-> "SIGNED_RELEASE_FILES", value |-> C27_joined(N)]
       /\ exported[N + 2] =
            [name |-> "NOF_SIGNED_RELEASE_FILES", value |-> ToString(N)]
       /\ \A k \in (N + 3)..Len(outputs) :
            outputs[k].name = "signedReleaseFile"

C27_Witness ==
  /\ releaseFiles = <<"other", "apk">>
  /\ C27_completed
  /\ outputOf("signedReleaseFile0") = ""
  /\ outputOf("signedReleaseFile1") = "dir/app1-signed.apk"
  /\ outputOf("signedReleaseFiles") = ":dir/app1-signed.apk"
  /\ outputOf("nofSignedReleaseFiles") = "2"

\* C28: the output signedReleaseFile is set only for a batch of exactly one
\* file and then equals signedReleaseFile0, and once the run has ended it
\* is set for every batch of exactly one file.
C28_SingularIffOne ==
  /\ hasOutput("signedReleaseFile") =>
       /\ Len(releaseFiles) = 1
       /\ hasOutput("signedReleaseFile0")
       /\ outputOf("signedReleaseFile") = outputOf("signedReleaseFile0")
  /\ (runEnded /\ Len(releaseFiles) = 1) => hasOutput("signedReleaseFile")

\* C29: once a run has terminated the file ./serviceAccountJson.json does not
\* exist, whichever way the run ended; and once the file has been removed and
\* the call that was pending at that moment has been answered, the publish of
\* that run issues no further remote call.
C29_CredentialsLifetime ==
  /\ [](runEnded => ~credFile)
  /\ [][(plainText /\ ~credFile /\ late) => calls' = calls]_vars

\* C30: once a sign-mode run has terminated, the decoded keystore
\* signingKey.jks that signRun wrote into the release directory is no longer
\* on disk.
C30_KeystoreRemoved == runEnded => ~signingKey

\* C31: at every moment of a run at most one remote call or external tool is
\* pending (the publish awaits one call at a time, and no tool runs while a
\* call is pending), and in the logs of the remote calls and of the tools run
\* the artifacts appear in their input order: nothing is logged for an
\* artifact after something was logged for a later one.
C31_toolSteps ==
  {"getReleaseNotes", "zipalign", "cp", "apksignerSign", "apksignerVerify",
   "jarsigner"}

C31_pending ==
  (IF alive /\ inFlight THEN 1 ELSE 0) + (IF pc \in C31_toolSteps THEN 1 ELSE 0)

C31_fileCalls == SelectSeq(calls, LAMBDA c : c.file > 0)

C31_OneAtATime ==
  /\ C31_pending <= 1
  /\ \A k \in 1..Len(C31_fileCalls), l \in 1..Len(C31_fileCalls) :
       k < l => C31_fileCalls[k].file <= C31_fileCalls[l].file
  /\ \A k \in 1..Len(execs), l \in 1..Len(execs) :
       k < l => execs[k].file <= execs[l].file

C31_Witness ==
  /\ Len(C31_fileCalls) = 4
  /\ C31_fileCalls[1].api = "edits.apks.upload"
  /\ C31_fileCalls[2].file = 1
  /\ C31_fileCalls[3].file = 1
  /\ C31_fileCalls[4].file = 2

C31_WitnessSign ==
  /\ Len(execs) = 5
  /\ execs[4].file = 0
  /\ execs[5].file = 1

\* C34: the output internalSharingDownloadUrl is set only by a publish to the
\* internalsharing track: a publish to any other track sets no output of
\* that name.
C34_UrlOnlyWhenSharing ==
  standardTrack =>
    \A k \in 1..Len(outputs) : outputs[k].name # "internalSharingDownloadUrl"

\* C36: once reading the release notes (from the file or from the git log)
\* has marked the run failed, no artifact upload, track update or commit is
\* issued.
C36_notesFailed ==
  \E k \in 1..Len(failures) :
    failures[k].text \in {"Failed to read release notes file",
                          "Failed to generate release notes from git commits."}

C36_FailedNeverPublishes ==
  C36_notesFailed =>
    \A k \in 1..Len(calls) :
      ~(isUpload(calls[k]) \/ isSharingUpload(calls[k]) \/ isUpdate(calls[k])
          \/ isCommit(calls[k]))

\* C37: a run of any mode never ends with an unhandled error: it always ends
\* by returning from run(), never by the process being ended by an error
\* thrown out of run().
C37_NeverUnhandled == pc # "crashed"

\* C32: content given directly in the releaseNotes input is what
\* getReleaseNotes returns whatever the source and path settings are, with
\* nothing read and no failure; every track update carries the caller's
\* notes when some were resolved and otherwise what the whatsnew directory
\* yields; and the directory is read, and can fail the publish, only when no
\* caller's notes were resolved.
C32_updates == SelectSeq(calls, isUpdate)

C32_NotesResolution ==
  /\ \A source \in NotesSources, path \in Paths, ioOk \in BOOLEAN,
        text \in {"", "notes"} :
       getReleaseNotes(source, path, "notes", ioOk, text) =
         [notes |-> "notes", failure |-> ""]
  /\ \A k \in 1..Len(C32_updates) :
       LET written == C32_updates[k].releases[1].releaseNotes IN
       IF releaseNotes # <<>> THEN written = releaseNotes
       ELSE written \in LocalizedNotes
  /\ (\E k \in 1..Len(failures) : failures[k].text = "ENOENT: whatsNewDir")
       => releaseNotes = <<>>

C32_Witness ==
  /\ releaseNotes = <<[language |-> "en-US", text |-> "notes"]>>
  /\ Len(C32_updates) = 1
  /\ C32_updates[1].releases[1].releaseNotes = releaseNotes
  /\ result # ""

C32_WitnessLocalized ==
  /\ releaseNotes = <<>>
  /\ Len(C32_updates) = 1
  /\ C32_updates[1].releases[1].releaseNotes # <<>>

\* C33 as stated: after a successful publish to a standard track some output
\* of the action carries something other than a download URL inferred from
\* a version code, which is where a commit id would be.
C33_success == upc = "resolved"

C33_sharingUploads == SelectSeq(calls, isSharingUpload)

C33_expected(singular, plural) ==
  LET n == Len(C33_sharingUploads)
      url(i) == Url(FALSE, C33_sharingUploads[i].code)
  IN [i \in 1..(n + 1) |->
        IF i <= n THEN [name |-> singular, urls |-> <<url(i)>>]
        ELSE [name |-> plural, urls |-> [j \in 1..n |-> url(j)]]]

C33_WitnessCommit ==
  /\ C33_success
  /\ standardTrack
  /\ result = "C2"
  /\ Len(outputs) = 2

\* C38: when the build-tools directory does not exist, the step that starts
\* the signing of an .apk only logs the error: it marks nothing failed and
\* goes on to run zipalign; and in such a run an .apk fails at no other tool
\* than zipalign, whose invocation is then in the log of tools run with a
\* failing exit.
C38_missing == "Couldnt find the Android build tools"

C38_startsApk ==
  /\ pc = "signReleaseFile"
  /\ index < Len(releaseFiles)
  /\ releaseFiles[index + 1] = "apk"
  /\ ~processEnv.buildTools

C38_failedApk(k) ==
  /\ execs[k].exit # 0
  /\ releaseFiles[execs[k].file + 1] = "apk"

C38_AbsentToolchainOnlyLogs ==
  /\ [](~processEnv.buildTools =>
          /\ \A k \in 1..Len(execs) :
               C38_failedApk(k) => execs[k].tool = "zipalign"
          /\ \A k \in 1..Len(failures) :
               failures[k].text # C38_missing
          /\ (\E k \in 1..Len(logged) : logged[k] = C38_missing)
               => (pc = "zipalign" \/ Len(execs) > 0))
  /\ [][C38_startsApk =>
          (/\ pc' = "zipalign"
           /\ failures' = failures
           /\ logged' = Append(logged, C38_missing)
           /\ execs' = execs)]_vars

C38_Witness ==
  /\ ~processEnv.buildTools
  /\ logged = <<C38_missing>>
  /\ Len(execs) = 1
  /\ execs[1].tool = "zipalign"
  /\ execs[1].exit # 0
  /\ failed
  /\ runEnded

\* C35: a returned list has exactly one entry per file of the directory that
\* is named whatsnew-<locale> (the name starts with "whatsnew-" and a locale
\* follows), in the order of the listing, with the locale as language and the
\* file's content as text; and for an absent or empty directory argument the
\* call returns no value and makes no file-system call.
C35_named(entry) ==
  /\ entry.name[1] = "whatsnew-"
  /\ \E j \in 2..Len(entry.name) : hasWordChar(entry.name[j])

C35_OneEntryPerNamedFile ==
  /\ whatsNew.pc = "returned" =>
       LET named == SelectSeq(whatsNew.dirents, C35_named) IN
       whatsNew.localizedReleaseNotes =
         [i \in 1..Len(named) |->
            [language |-> concat(Tail(named[i].name)),
             text |-> named[i].content]]
  /\ (whatsNew.whatsNewDir = "" /\ whatsNew.pc \notin {"idle", "call"}) =>
       /\ whatsNew.pc = "undefined"
       /\ whatsNew.fsCalls = <<>>

====
